---- MODULE Spec2Model ----
(***************************************************************************)
(* Model of the scoring/aggregation engine (src/scoring.py), of the batch   *)
(* driver (src/cli.py) and of the library code they rest on (src/urls.py,  *)
(* src/git_inspect.py, src/hf_api.py, src/metrics/*.py).                   *)
(*                                                                         *)
(* Number representation: a score is an integer number of thousandths     *)
(* (1000 is 1.0), a weight an integer number of hundredths (15 is 0.15),   *)
(* a latency an integer number of milliseconds.  The net score is kept as  *)
(* an exact fraction num/den, so Python's float rounding is not modelled.  *)
(***************************************************************************)
EXTENDS Integers, Sequences, FiniteSets, TLC

VARIABLES
    config_file,   \* what the path given to MetricScorer() holds
    config,        \* MetricScorer.config
    pc,            \* position of score_model
    context,       \* the ModelContext passed to score_model
    calls,         \* the calls and returns of hf_api methods so far, in order
    coro,          \* per metric: state of its coroutine object
    outcome,       \* per metric: what its coroutine did when it ran
    results,       \* the dict built by _compute_metrics_parallel
    clock,         \* time.perf_counter(), in milliseconds
    net_start,     \* start_time of score_model's measure_time()
    net_score,     \* value returned by _calculate_net_score
    audit,         \* the AuditResult returned by score_model
    raised_by,     \* where the exception that left score_model was raised
    cli_pc,        \* position of main
    urls,          \* the non-blank lines of the URL file
    url_i,         \* index of the URL main's loop is at
    argv,          \* main's arguments after the program name
    url_file,      \* the file named by argv[1]
    stdout,        \* the lines printed to standard output
    exit_code,     \* the value main returned
    bmc_pc,        \* position of build_model_contexts
    url_list,      \* the urls argument of build_model_contexts
    parsed_urls,   \* build_model_contexts: parsed_urls
    bmc_i,         \* index of the ParsedURL build_model_contexts' loop is at
    pending_datasets, \* build_model_contexts: pending_datasets
    pending_code,  \* build_model_contexts: pending_code
    contexts,      \* build_model_contexts: contexts
    git_pc,        \* position of _calculate_bus_factor_score's git analysis
    code_repos,    \* context.code_repos
    repo_i,        \* index of the code_repo the evaluator's loop is at
    cache_dir,     \* GitInspector.cache_dir on disk
    clone_dirs,    \* per repo_name: the directory cache_dir/repo_name on disk
    threads,       \* per clone_repo call: its clone_worker thread
    clone_log,     \* what each clone_repo call returned, in call order
    cleanup_called, \* GitInspector.cleanup has returned
    hf_pc,         \* position of the HuggingFaceAPI method being run
    hf_method,     \* which HuggingFaceAPI method is being run
    hf_ref,        \* the ParsedURL it was given
    file_i,        \* index of the file name its loop is at
    config_data,   \* get_model_config: the config files parsed so far
    hub_log,       \* what each hub call of the method did, in call order
    hf_result,     \* what the method did: the value returned, or a raise
    ev_pc,         \* position of the evaluator run on its own
    ev_context,    \* the ModelContext given to its compute
    ev_metric,     \* the name of the evaluator that ran
    ev_outcome,    \* what its compute did: the MetricResult, or a raise
    ev_input,      \* what the evaluator found outside the context
    ins_pc,        \* per cloning evaluator: position of its git analysis
    ins_left,      \* per cloning evaluator: code_repos its loop has yet to try
    ins_dir,       \* per cloning evaluator: its GitInspector's cache_dir
    ins_failed,    \* per cloning evaluator: a clone_repo call returned None
    tmp_dirs       \* per name: the directory of that name under the temp dir

scorer_vars == <<config_file, config, pc, context, calls, coro, outcome,
                 results, clock, net_start, net_score, audit, raised_by>>
cli_vars == <<cli_pc, argv, url_file, urls, url_i, stdout, exit_code>>
url_vars == <<bmc_pc, url_list, parsed_urls, bmc_i, pending_datasets,
              pending_code, contexts>>
git_vars == <<git_pc, code_repos, repo_i, cache_dir, clone_dirs, threads,
              clone_log, cleanup_called>>
hf_vars == <<hf_pc, hf_method, hf_ref, file_i, config_data, hub_log,
             hf_result>>
ev_vars == <<ev_pc, ev_context, ev_metric, ev_outcome, ev_input>>
ins_vars == <<ins_pc, ins_left, ins_dir, ins_failed, tmp_dirs>>
lib_vars == <<url_vars, git_vars, hf_vars, ev_vars, ins_vars>>
not_url_vars == <<scorer_vars, cli_vars, git_vars, hf_vars, ev_vars, ins_vars>>
not_git_vars == <<scorer_vars, cli_vars, url_vars, hf_vars, ev_vars, ins_vars>>
not_hf_vars == <<scorer_vars, cli_vars, url_vars, git_vars, ev_vars, ins_vars>>
not_ev_vars == <<scorer_vars, cli_vars, url_vars, git_vars, hf_vars, ins_vars>>
not_ins_vars == <<scorer_vars, cli_vars, url_vars, git_vars, hf_vars, ev_vars>>
vars == <<scorer_vars, cli_vars, lib_vars>>

----------------------------------------------------------------------------
(* Values *)

ScoreOne == 1000
WeightOne == 100

None == [type |-> "None"]

MetricResultOf(s, l) == [type |-> "MetricResult", score |-> s, latency |-> l]

SizeScoreOf(a, b, c, d) ==
    [type |-> "SizeScore", raspberry_pi |-> a, jetson_nano |-> b,
     desktop_pc |-> c, aws_server |-> d]

IntOf(n) == [type |-> "int", value |-> n]

\* InUnit for a field declared with le=1.0 only
InUnitNoLowerBound(s) == s <= ScoreOne

\* pydantic Field(..., ge=0.0, le=1.0)
InUnit(s) == 0 <= s /\ s <= ScoreOne

\* MetricResult(score=..., latency=...) raises ValidationError unless this holds
ValidMetricResult(s, l) == InUnit(s) /\ l >= 0

\* SizeScore(...) raises ValidationError unless this holds
ValidSizeScore(a, b, c, d) == InUnit(a) /\ InUnit(b) /\ InUnit(c) /\ InUnit(d)

\* self.metrics, in registration order
Metrics ==
    << "ramp_up_time", "bus_factor", "performance_claims", "license",
       "size_score", "dataset_and_code_score", "dataset_quality",
       "code_quality" >>

MetricNames == {Metrics[i] : i \in 1..Len(Metrics)}

ScalarNames == MetricNames \ {"size_score"}

----------------------------------------------------------------------------
(* Configuration *)

NoWeights == [m \in {} |-> 0]

Mapping(has, w) ==
    [kind |-> "mapping", has_weights |-> has, metric_weights |-> w]

\* yaml.safe_load of an empty file
NoneConfig == [kind |-> "none", has_weights |-> FALSE, metric_weights |-> NoWeights]

\* yaml.safe_load of a document that is a scalar or a list
ScalarConfig == [kind |-> "scalar", has_weights |-> FALSE, metric_weights |-> NoWeights]

DefaultWeights ==
    [m \in MetricNames |->
        CASE m = "ramp_up_time" -> 15
          [] m = "bus_factor" -> 10
          [] m = "performance_claims" -> 15
          [] m = "license" -> 10
          [] m = "size_score" -> 15
          [] m = "dataset_and_code_score" -> 15
          [] m = "dataset_quality" -> 10
          [] m = "code_quality" -> 10]

get_default_config == Mapping(TRUE, DefaultWeights)

\* Well-formed weight files: every metric at w hundredths
EqualWeights(w) == [m \in MetricNames |-> w]

\* tests/test_scoring.py temp_config: five registered weights of 0.2
FiveWeights ==
    [m \in {"ramp_up_time", "bus_factor", "performance_claims", "license",
            "size_score"} |-> 20]

ConfigFiles ==
    { "missing", "unparseable", "empty", "scalar", "no_metric_weights",
      "default_weights", "five_weights", "equal_small", "equal_large",
      "zero_weights" }

MalformedFiles ==
    { "missing", "unparseable", "empty", "scalar", "no_metric_weights" }

\* What yaml.safe_load returns for a file that exists and parses
ParsedYaml(f) ==
    CASE f = "empty" -> NoneConfig
      [] f = "scalar" -> ScalarConfig
      [] f = "no_metric_weights" -> Mapping(FALSE, NoWeights)
      [] f = "default_weights" -> Mapping(TRUE, DefaultWeights)
      [] f = "five_weights" -> Mapping(TRUE, FiveWeights)
      [] f = "equal_small" -> Mapping(TRUE, EqualWeights(5))
      [] f = "equal_large" -> Mapping(TRUE, EqualWeights(20))
      [] f = "zero_weights" -> Mapping(TRUE, EqualWeights(0))
      [] OTHER -> NoneConfig

load_config(f) ==
    IF f = "missing" THEN get_default_config
    ELSE IF f = "unparseable" THEN get_default_config
    ELSE ParsedYaml(f)

\* dict.get(key, default) on a weights mapping
Get(w, k, default) == IF k \in DOMAIN w THEN w[k] ELSE default

\* config.get(...) raises AttributeError when config is not a mapping
IsMapping(c) == c.kind = "mapping"

----------------------------------------------------------------------------
(* Evidence providers and contexts *)

\* ParsedURL values of the model under audit
ModelUrls == { [name |-> "bert-base-uncased", platform |-> "huggingface"] }

DatasetUrl == [name |-> "squad", platform |-> "huggingface"]
CodeUrl == [name |-> "google-research/bert", platform |-> "github"]

\* ModelContext(model_url=..., datasets=..., code_repos=...): the cached
\* fields default to None
ModelContextOf(u, ds, cr) ==
    [model_url |-> u, datasets |-> ds, code_repos |-> cr,
     hf_info |-> None, readme_content |-> None, config_data |-> None]

InputContexts ==
    { ModelContextOf(u, <<>>, <<>>) : u \in ModelUrls } \cup
    { ModelContextOf(u, <<DatasetUrl>>, <<CodeUrl>>) : u \in ModelUrls }

\* What one awaited hf_api call does: returns data, returns None, or raises
ProviderOutcomes == {"value", "none", "raise"}

HfInfoValue == [type |-> "dict", of |-> "hf_info"]
ReadmeValue == [type |-> "str", of |-> "readme"]
ConfigValue == [type |-> "dict", of |-> "config"]

Fetched(o, v) == IF o = "value" THEN v ELSE None

----------------------------------------------------------------------------
(* Metric evaluators *)

\* Longest time, in milliseconds, a sampled score computation takes
MaxElapsed == 3

Raise(ms) == [kind |-> "raise", elapsed |-> ms]
Return(v, ms) == [kind |-> "return", value |-> v, elapsed |-> ms]

\* What a _calculate_*_score coroutine does: it returns a raw score after
\* some milliseconds, or raises.  The bus factor can leave [0,1] through the
\* single_contributor_penalty threshold (bus_factor.py:27,60,69).
RawOutcomes(m) ==
    IF m = "size_score"
    THEN { Raise(1),
           Return(<<500, 700, 900, 1000>>, 2),
           Return(<<700, 700, 700, 700>>, 0) }
    ELSE { Raise(1), Return(700, MaxElapsed) } \cup
         (IF m = "ramp_up_time" THEN { Return(1000, 0) } ELSE {}) \cup
         (IF m = "bus_factor" THEN { Return(0 - 500, 1) } ELSE {})

\* The evaluators that read config.get(...) before anything else
ReadsConfig(m) == m \in {"bus_factor", "size_score"}

\* BaseMetric.compute of a scalar metric: time the score computation and
\* wrap it in a validated MetricResult
compute(m, raw, cfg) ==
    IF ReadsConfig(m) /\ ~IsMapping(cfg) THEN Raise(0)
    ELSE IF raw.kind = "raise" THEN raw
    ELSE IF ValidMetricResult(raw.value, raw.elapsed)
         THEN Return(MetricResultOf(raw.value, raw.elapsed), raw.elapsed)
         ELSE Raise(raw.elapsed)

\* MetricScorer._compute_size_metric_with_latency: returns the tuple
\* (size_scores, latency)
compute_size_metric_with_latency(raw, cfg) ==
    IF ~IsMapping(cfg) THEN Raise(0)
    ELSE IF raw.kind = "raise" THEN raw
    ELSE IF ValidSizeScore(raw.value[1], raw.value[2], raw.value[3], raw.value[4])
         THEN Return([type |-> "tuple",
                      size_scores |-> SizeScoreOf(raw.value[1], raw.value[2],
                                                  raw.value[3], raw.value[4]),
                      latency |-> raw.elapsed], raw.elapsed)
         ELSE Raise(raw.elapsed)

\* The task created for metric m at scoring.py:140-146, run to completion
RunTask(m, raw, cfg) ==
    IF m = "size_score" THEN compute_size_metric_with_latency(raw, cfg)
    ELSE compute(m, raw, cfg)

Put(f, k, v) == [x \in (DOMAIN f) \cup {k} |-> IF x = k THEN v ELSE f[x]]

EmptyDict == [k \in {} |-> None]

ZeroSizeScore == SizeScoreOf(0, 0, 0, 0)
ZeroMetricResult == MetricResultOf(0, 0)

\* The except branch without the latency entry of the size metric
StoreDefaultWithoutLatency(res, m) ==
    IF m = "size_score" THEN Put(res, m, ZeroSizeScore)
    ELSE Put(res, m, ZeroMetricResult)

\* scoring.py:164-173: the except branch of the await loop
StoreDefault(res, m) ==
    IF m = "size_score"
    THEN Put(Put(res, m, ZeroSizeScore), "size_score_latency", IntOf(0))
    ELSE Put(res, m, ZeroMetricResult)

\* StoreResult with an except branch that forgets the size metric's shape
StoreResultScalarDefault(res, m, o) ==
    IF o.kind = "return"
    THEN IF m = "size_score"
         THEN Put(Put(res, m, o.value.size_scores),
                  "size_score_latency", IntOf(o.value.latency))
         ELSE Put(res, m, o.value)
    ELSE IF m = "size_score"
         THEN Put(Put(res, m, ZeroMetricResult), "size_score_latency", IntOf(0))
         ELSE Put(res, m, ZeroMetricResult)

\* The body of the await loop of _compute_metrics_parallel for one task
StoreResult(res, m, o) ==
    IF o.kind = "return"
    THEN IF m = "size_score"
         THEN IF o.value.type = "tuple"
              THEN Put(Put(res, m, o.value.size_scores),
                       "size_score_latency", IntOf(o.value.latency))
              ELSE Put(Put(res, m, o.value), "size_score_latency", IntOf(0))
         ELSE Put(res, m, o.value)
    ELSE StoreDefault(res, m)

----------------------------------------------------------------------------
(* Net score *)

RECURSIVE SumOver(_, _)
SumOver(S, f) ==
    IF S = {} THEN 0
    ELSE LET x == CHOOSE y \in S : TRUE IN f[x] + SumOver(S \ {x}, f)

\* weights = self.config.get('metric_weights', {})
WeightsOf(cfg) == IF cfg.has_weights THEN cfg.metric_weights ELSE NoWeights

\* The keys the first loop of _calculate_net_score adds up
ScalarKeys(metric_results) ==
    { k \in DOMAIN metric_results :
        /\ k # "size_score"
        /\ k # "size_score_latency"
        /\ metric_results[k].type = "MetricResult" }

HasSizeScore(metric_results) ==
    /\ "size_score" \in DOMAIN metric_results
    /\ metric_results["size_score"].type = "SizeScore"

SizeSum(ss) == ss.raspberry_pi + ss.jetson_nano + ss.desktop_pc + ss.aws_server

\* total_weight at scoring.py:210
TotalWeight(metric_results, cfg) ==
    LET weights == WeightsOf(cfg)
        K == ScalarKeys(metric_results)
    IN SumOver(K, [k \in K |-> Get(weights, k, 0)])
       + (IF HasSizeScore(metric_results) THEN Get(weights, "size_score", 0) ELSE 0)

\* 4 * total_score at scoring.py:210 (the size average is kept undivided)
TotalScore4(metric_results, cfg) ==
    LET weights == WeightsOf(cfg)
        K == ScalarKeys(metric_results)
    IN 4 * SumOver(K, [k \in K |-> metric_results[k].score * Get(weights, k, 0)])
       + (IF HasSizeScore(metric_results)
          THEN SizeSum(metric_results["size_score"]) * Get(weights, "size_score", 0)
          ELSE 0)

\* Denominator without the guard against a zero total weight
DenominatorUnguarded(total_weight) == total_weight

\* max(total_weight, 1.0)
Denominator(total_weight) ==
    IF total_weight > WeightOne THEN total_weight ELSE WeightOne

\* _calculate_net_score: the fraction num/den is the score in thousandths
calculate_net_score(metric_results, cfg) ==
    [num |-> TotalScore4(metric_results, cfg),
     den |-> 4 * Denominator(TotalWeight(metric_results, cfg))]

----------------------------------------------------------------------------
(* AuditResult *)

\* AuditResult(...) raises ValidationError unless every Field constraint holds
ValidAuditResult(r) ==
    /\ r.net_score.den > 0
    /\ 0 <= r.net_score.num
    /\ r.net_score.num <= ScoreOne * r.net_score.den
    /\ r.net_score_latency >= 0
    /\ InUnit(r.ramp_up_time) /\ r.ramp_up_time_latency >= 0
    /\ InUnit(r.bus_factor) /\ r.bus_factor_latency >= 0
    /\ InUnit(r.performance_claims) /\ r.performance_claims_latency >= 0
    /\ InUnit(r.license) /\ r.license_latency >= 0
    /\ r.size_score.type = "SizeScore"
    /\ r.size_score_latency >= 0
    /\ InUnit(r.dataset_and_code_score) /\ r.dataset_and_code_score_latency >= 0
    /\ InUnit(r.dataset_quality) /\ r.dataset_quality_latency >= 0
    /\ InUnit(r.code_quality) /\ r.code_quality_latency >= 0

\* get_net_latency(): int((time.perf_counter() - start_time) * 1000)
Elapsed(start, now) == now - start

\* scoring.py:87-121: the arguments score_model passes to AuditResult
AuditFields(ctx, metric_results, net, latency) ==
    [name |-> ctx.model_url.name,
     category |-> "MODEL",
     net_score |-> net,
     net_score_latency |-> latency,
     ramp_up_time |-> metric_results["ramp_up_time"].score,
     ramp_up_time_latency |-> metric_results["ramp_up_time"].latency,
     bus_factor |-> metric_results["bus_factor"].score,
     bus_factor_latency |-> metric_results["bus_factor"].latency,
     performance_claims |-> metric_results["performance_claims"].score,
     performance_claims_latency |-> metric_results["performance_claims"].latency,
     license |-> metric_results["license"].score,
     license_latency |-> metric_results["license"].latency,
     size_score |-> IF HasSizeScore(metric_results)
                    THEN metric_results["size_score"] ELSE ZeroSizeScore,
     size_score_latency |-> metric_results["size_score_latency"].value,
     dataset_and_code_score |-> metric_results["dataset_and_code_score"].score,
     dataset_and_code_score_latency |->
         metric_results["dataset_and_code_score"].latency,
     dataset_quality |-> metric_results["dataset_quality"].score,
     dataset_quality_latency |-> metric_results["dataset_quality"].latency,
     code_quality |-> metric_results["code_quality"].score,
     code_quality_latency |-> metric_results["code_quality"].latency]

----------------------------------------------------------------------------
(* MetricScorer: construction and score_model *)

NoOutcome == [kind |-> "none", elapsed |-> 0]
NoNet == [num |-> 0, den |-> 0]

ScorerInit ==
    /\ config_file = "unset"
    /\ config = NoneConfig
    /\ pc = "new"
    /\ context = ModelContextOf(CHOOSE u \in ModelUrls : TRUE, <<>>, <<>>)
    /\ calls = <<>>
    /\ coro = [m \in MetricNames |-> "absent"]
    /\ outcome = [m \in MetricNames |-> NoOutcome]
    /\ results = EmptyDict
    /\ clock = 0
    /\ net_start = 0
    /\ net_score = NoNet
    /\ audit = None
    /\ raised_by = "nothing"

\* build_model_contexts not called
UrlIdle ==
    /\ bmc_pc = "unused"
    /\ url_list = <<>>
    /\ parsed_urls = <<>>
    /\ bmc_i = 0
    /\ pending_datasets = <<>>
    /\ pending_code = <<>>
    /\ contexts = <<>>

\* No evaluator is analysing a git repository
GitIdle ==
    /\ git_pc = "unused"
    /\ code_repos = <<>>
    /\ repo_i = 0
    /\ cache_dir = "not created"
    /\ clone_dirs = <<>>
    /\ threads = <<>>
    /\ clone_log = <<>>
    /\ cleanup_called = FALSE

\* No HuggingFaceAPI method is running
HfIdle ==
    /\ hf_pc = "unused"
    /\ hf_method = "none"
    /\ hf_ref = [type |-> "None"]
    /\ file_i = 0
    /\ config_data = {}
    /\ hub_log = <<>>
    /\ hf_result = [type |-> "None"]

\* No evaluator is run on its own
EvalIdle ==
    /\ ev_pc = "unused"
    /\ ev_context = [type |-> "None"]
    /\ ev_metric = "none"
    /\ ev_outcome = [type |-> "None"]
    /\ ev_input = [type |-> "None"]

\* No pair of cloning evaluators is run
InsIdle ==
    /\ ins_pc = <<>>
    /\ ins_left = <<>>
    /\ ins_dir = <<>>
    /\ ins_failed = <<>>
    /\ tmp_dirs = <<>>

LibIdle == UrlIdle /\ GitIdle /\ HfIdle /\ EvalIdle /\ InsIdle

CliIdle ==
    /\ cli_pc = "unused"
    /\ argv = <<>>
    /\ url_file = [state |-> "missing", lines |-> <<>>]
    /\ urls = <<>>
    /\ url_i = 0
    /\ stdout = <<>>
    /\ exit_code = 0 - 1

\* MetricScorer.__init__(config_path)
Construct(f) ==
    /\ pc = "new"
    /\ config_file' = f
    /\ config' = load_config(f)
    /\ pc' = "idle"
    /\ UNCHANGED <<context, calls, coro, outcome, results, clock, net_start,
                   net_score, audit, raised_by>>
    /\ UNCHANGED <<cli_vars, lib_vars>>

\* CallScoreModel that goes to the fan-out without awaiting _enrich_context
CallScoreModelNoEnrich(ctx) ==
    /\ pc = "idle"
    /\ context' = ctx
    /\ pc' = "create_tasks"
    /\ UNCHANGED <<config_file, config, calls, coro, outcome, results, clock,
                   net_start, net_score, audit, raised_by>>
    /\ UNCHANGED <<cli_vars, lib_vars>>

\* score_model is called with a freshly built context
CallScoreModel(ctx) ==
    /\ pc = "idle"
    /\ context' = ctx
    /\ pc' = "enrich_hf_info"
    /\ UNCHANGED <<config_file, config, calls, coro, outcome, results, clock,
                   net_start, net_score, audit, raised_by>>
    /\ UNCHANGED <<cli_vars, lib_vars>>

CallEvent(call) == [op |-> "call", name |-> call]
ReturnEvent(call) == [op |-> "return", name |-> call]

\* _enrich_context awaits self.hf_api.<call>(context.model_url)
ProviderCall(at, call, wait) ==
    /\ pc = at
    /\ calls' = Append(calls, CallEvent(call))
    /\ pc' = wait
    /\ UNCHANGED <<config_file, config, context, coro, outcome, results,
                   clock, net_start, net_score, audit, raised_by>>
    /\ UNCHANGED <<cli_vars, lib_vars>>

\* The awaited call returns and context.<field> is assigned, or it raises
\* and the exception leaves _enrich_context and score_model
ProviderReturn(wait, call, field, value, next, o) ==
    /\ pc = wait
    /\ IF o = "raise"
       THEN /\ pc' = "raised"
            /\ raised_by' = call
            /\ UNCHANGED <<context, calls>>
       ELSE /\ pc' = next
            /\ calls' = Append(calls, ReturnEvent(call))
            /\ context' = [context EXCEPT ![field] = Fetched(o, value)]
            /\ UNCHANGED raised_by
    /\ UNCHANGED <<config_file, config, coro, outcome, results, clock,
                   net_start, net_score, audit>>
    /\ UNCHANGED <<cli_vars, lib_vars>>

\* scoring.py:126
EnrichHfInfo == ProviderCall("enrich_hf_info", "get_model_info", "in_get_model_info")

EnrichHfInfoDone(o) ==
    ProviderReturn("in_get_model_info", "get_model_info", "hf_info",
                   HfInfoValue, "enrich_readme", o)

\* scoring.py:129
EnrichReadme ==
    ProviderCall("enrich_readme", "get_readme_content", "in_get_readme_content")

EnrichReadmeDone(o) ==
    ProviderReturn("in_get_readme_content", "get_readme_content",
                   "readme_content", ReadmeValue, "enrich_config", o)

\* scoring.py:132
EnrichConfig ==
    ProviderCall("enrich_config", "get_model_config", "in_get_model_config")

EnrichConfigDone(o) ==
    ProviderReturn("in_get_model_config", "get_model_config", "config_data",
                   ConfigValue, "create_tasks", o)

\* scoring.py:80 and 139-149: measure_time() starts, then one coroutine
\* object per metric is created; none of them has started running
CreateTasks ==
    /\ pc = "create_tasks"
    /\ net_start' = clock
    /\ coro' = [m \in MetricNames |-> "created"]
    /\ results' = EmptyDict
    /\ pc' = "await_tasks"
    /\ UNCHANGED <<config_file, config, context, calls, outcome, clock,
                   net_score, audit, raised_by>>
    /\ UNCHANGED <<cli_vars, lib_vars>>

\* The task the for loop at scoring.py:150 is at: the first one not finished
Awaited ==
    LET I == {i \in 1..Len(Metrics) : coro[Metrics[i]] # "finished"}
    IN Metrics[CHOOSE i \in I : \A j \in I : i <= j]

AllFinished == \A m \in MetricNames : coro[m] = "finished"

\* `await task` on a coroutine object starts it
StartTask(m) ==
    /\ pc = "await_tasks"
    /\ ~AllFinished
    /\ m = Awaited
    /\ coro[m] = "created"
    /\ coro' = [coro EXCEPT ![m] = "running"]
    /\ UNCHANGED <<config_file, config, pc, context, calls, outcome, results,
                   clock, net_start, net_score, audit, raised_by>>
    /\ UNCHANGED <<cli_vars, lib_vars>>

\* FinishTask of an evaluator that caches what it fetched on the context
FinishTaskCaching(m, raw) ==
    /\ pc = "await_tasks"
    /\ coro[m] = "running"
    /\ LET o == RunTask(m, raw, config)
       IN /\ outcome' = [outcome EXCEPT ![m] = o]
          /\ results' = StoreResult(results, m, o)
          /\ clock' = clock + o.elapsed
    /\ coro' = [coro EXCEPT ![m] = "finished"]
    /\ pc' = IF \A n \in MetricNames \ {m} : coro[n] = "finished"
             THEN "net_score" ELSE "await_tasks"
    /\ context' = IF m = "dataset_quality"
                  THEN [context EXCEPT !.readme_content = ReadmeValue]
                  ELSE context
    /\ UNCHANGED <<config_file, config, calls, net_start, net_score,
                   audit, raised_by>>
    /\ UNCHANGED <<cli_vars, lib_vars>>

\* The running coroutine returns or raises; the loop body stores the result
FinishTask(m, raw) ==
    /\ pc = "await_tasks"
    /\ coro[m] = "running"
    /\ LET o == RunTask(m, raw, config)
       IN /\ outcome' = [outcome EXCEPT ![m] = o]
          /\ results' = StoreResult(results, m, o)
          /\ clock' = clock + o.elapsed
    /\ coro' = [coro EXCEPT ![m] = "finished"]
    /\ pc' = IF \A n \in MetricNames \ {m} : coro[n] = "finished"
             THEN "net_score" ELSE "await_tasks"
    /\ UNCHANGED <<config_file, config, context, calls, net_start, net_score,
                   audit, raised_by>>
    /\ UNCHANGED <<cli_vars, lib_vars>>

\* scoring.py:84: net_score = self._calculate_net_score(metric_results)
NetScore ==
    /\ pc = "net_score"
    /\ IF ~IsMapping(config)
       THEN /\ pc' = "raised"
            /\ raised_by' = "AttributeError"
            /\ UNCHANGED net_score
       ELSE IF Denominator(TotalWeight(results, config)) = 0
       THEN /\ pc' = "raised"
            /\ raised_by' = "ZeroDivisionError"
            /\ UNCHANGED net_score
       ELSE /\ net_score' = calculate_net_score(results, config)
            /\ pc' = "build_result"
            /\ UNCHANGED raised_by
    /\ UNCHANGED <<config_file, config, context, calls, coro, outcome,
                   results, clock, net_start, audit>>
    /\ UNCHANGED <<cli_vars, lib_vars>>

\* scoring.py:86-121: build and return the AuditResult
BuildResult ==
    /\ pc = "build_result"
    /\ LET r == AuditFields(context, results, net_score,
                            Elapsed(net_start, clock))
       IN IF ValidAuditResult(r)
          THEN /\ audit' = r
               /\ pc' = "returned"
               /\ UNCHANGED raised_by
          ELSE /\ pc' = "raised"
               /\ raised_by' = "ValidationError"
               /\ UNCHANGED audit
    /\ UNCHANGED <<config_file, config, context, calls, coro, outcome,
                   results, clock, net_start, net_score>>
    /\ UNCHANGED <<cli_vars, lib_vars>>

Init == ScorerInit /\ CliIdle /\ LibIdle

Next ==
    \/ \E f \in ConfigFiles : Construct(f)
    \/ \E ctx \in InputContexts : CallScoreModel(ctx)
    \/ EnrichHfInfo
    \/ \E o \in ProviderOutcomes : EnrichHfInfoDone(o)
    \/ EnrichReadme
    \/ \E o \in ProviderOutcomes : EnrichReadmeDone(o)
    \/ EnrichConfig
    \/ \E o \in ProviderOutcomes : EnrichConfigDone(o)
    \/ CreateTasks
    \/ \E m \in MetricNames : StartTask(m)
    \/ \E m \in MetricNames : \E raw \in RawOutcomes(m) : FinishTask(m, raw)
    \/ NetScore
    \/ BuildResult

Spec == Init /\ [][Next]_vars

----------------------------------------------------------------------------
(* Batch driver: src/cli.py main *)

\* Longest URL file, in lines
MaxLines == 3

\* One line of the URL file after line.strip(): what classify_url and
\* process_model_url look at
UrlLine(text, hf, tree, hfds, ds, gh, id) ==
    [text |-> text, has_huggingface |-> hf, has_tree |-> tree,
     has_hf_datasets |-> hfds, has_datasets |-> ds, has_github |-> gh,
     model_id |-> id]

BlankLine == UrlLine("", FALSE, FALSE, FALSE, FALSE, FALSE, "")

HfModelLine ==
    UrlLine("https://huggingface.co/google/gemma-3-270m",
            TRUE, FALSE, FALSE, FALSE, FALSE, "google/gemma-3-270m")

HfDatasetLine ==
    UrlLine("https://huggingface.co/datasets/xlangai/AgentNet",
            TRUE, FALSE, TRUE, TRUE, FALSE, "datasets/xlangai/AgentNet")

GithubLine ==
    UrlLine("https://github.com/SkyworkAI/Matrix-Game",
            FALSE, FALSE, FALSE, FALSE, TRUE,
            "https://github.com/SkyworkAI/Matrix-Game")

OtherLine ==
    UrlLine("https://example.com/model",
            FALSE, FALSE, FALSE, FALSE, FALSE, "https://example.com/model")

Lines == {BlankLine, HfModelLine, HfDatasetLine, GithubLine, OtherLine}

RECURSIVE SeqsUpTo(_, _)
SeqsUpTo(S, n) ==
    IF n = 0 THEN {<<>>}
    ELSE LET shorter == SeqsUpTo(S, n - 1)
         IN shorter \cup {Append(q, x) : q \in {r \in shorter : Len(r) = n - 1}, x \in S}

UrlFiles ==
    { [state |-> "missing", lines |-> <<>>],
      [state |-> "unreadable", lines |-> <<>>] } \cup
    { [state |-> "ok", lines |-> q] : q \in SeqsUpTo(Lines, MaxLines) }

Argvs == { <<>>, <<"urls.txt">> }

classify_url(url) ==
    IF url.has_huggingface /\ url.has_tree THEN "MODEL"
    ELSE IF url.has_hf_datasets \/ url.has_datasets THEN "DATASET"
    ELSE IF url.has_github THEN "CODE"
    ELSE "MODEL"

NonBlank(line) == line.text # ""

\* The keys of the entry process_model_url returns (cli.py:158-182)
EntryKeys ==
    { "name", "category", "net_score", "net_score_latency",
      "license", "license_latency", "size_score", "size_score_latency",
      "ramp_up_time", "ramp_up_time_latency",
      "bus_factor", "bus_factor_latency",
      "performance_claims", "performance_claims_latency",
      "dataset_and_code_score", "dataset_and_code_score_latency",
      "dataset_quality", "dataset_quality_latency",
      "code_quality", "code_quality_latency" }

\* The keys of the line printed at cli.py:212
FailureKeys == { "name", "category", "net_score", "net_score_latency" }

Entry(url) ==
    [name |-> url.model_id, category |-> "MODEL", url |-> url.text,
     keys |-> EntryKeys]

FailureLine(url) ==
    [name |-> url.text, category |-> "MODEL", url |-> url.text,
     keys |-> FailureKeys]

\* What process_model_url does for one URL
ProcessOutcomes == {"return", "raise"}

CliInit ==
    /\ cli_pc = "start"
    /\ argv \in Argvs
    /\ url_file \in UrlFiles
    /\ urls = <<>>
    /\ url_i = 0
    /\ stdout = <<>>
    /\ exit_code = 0 - 1

\* cli.py:189-191
Usage ==
    /\ cli_pc = "start"
    /\ Len(argv) < 1
    /\ exit_code' = 1
    /\ cli_pc' = "done"
    /\ UNCHANGED <<argv, url_file, urls, url_i, stdout>>
    /\ UNCHANGED <<scorer_vars, lib_vars>>

\* cli.py:192-199
OpenUrlFile ==
    /\ cli_pc = "start"
    /\ Len(argv) >= 1
    /\ IF url_file.state = "ok"
       THEN /\ urls' = SelectSeq(url_file.lines, NonBlank)
            /\ url_i' = 1
            /\ cli_pc' = "loop"
            /\ UNCHANGED exit_code
       ELSE /\ exit_code' = 1
            /\ cli_pc' = "done"
            /\ UNCHANGED <<urls, url_i>>
    /\ UNCHANGED <<argv, url_file, stdout>>
    /\ UNCHANGED <<scorer_vars, lib_vars>>

\* cli.py:203-205
SkipUrl ==
    /\ cli_pc = "loop"
    /\ url_i <= Len(urls)
    /\ classify_url(urls[url_i]) # "MODEL"
    /\ url_i' = url_i + 1
    /\ UNCHANGED <<cli_pc, argv, url_file, urls, stdout, exit_code>>
    /\ UNCHANGED <<scorer_vars, lib_vars>>

\* cli.py:206-212
ProcessUrl(o) ==
    /\ cli_pc = "loop"
    /\ url_i <= Len(urls)
    /\ classify_url(urls[url_i]) = "MODEL"
    /\ stdout' = Append(stdout, IF o = "return" THEN Entry(urls[url_i])
                                ELSE FailureLine(urls[url_i]))
    /\ url_i' = url_i + 1
    /\ UNCHANGED <<cli_pc, argv, url_file, urls, exit_code>>
    /\ UNCHANGED <<scorer_vars, lib_vars>>

\* cli.py:213
ReturnFromMain ==
    /\ cli_pc = "loop"
    /\ url_i > Len(urls)
    /\ exit_code' = 0
    /\ cli_pc' = "done"
    /\ UNCHANGED <<argv, url_file, urls, url_i, stdout>>
    /\ UNCHANGED <<scorer_vars, lib_vars>>

CliNext ==
    \/ Usage
    \/ OpenUrlFile
    \/ SkipUrl
    \/ \E o \in ProcessOutcomes : ProcessUrl(o)
    \/ ReturnFromMain

CliStart == ScorerInit /\ CliInit /\ LibIdle

CliSpec == CliStart /\ [][CliNext]_vars

----------------------------------------------------------------------------
(* Properties of the scoring orchestrator *)

Started(m) == coro[m] \in {"running", "finished"}

ProviderCalls == {"get_model_info", "get_readme_content", "get_model_config"}

EnrichmentCalls ==
    << CallEvent("get_model_info"), ReturnEvent("get_model_info"),
       CallEvent("get_readme_content"), ReturnEvent("get_readme_content"),
       CallEvent("get_model_config"), ReturnEvent("get_model_config") >>

IsPrefix(p, q) == Len(p) <= Len(q) /\ \A i \in 1..Len(p) : p[i] = q[i]

\* C1: an evaluator that raised has the zero default in the result map (for
\* size_score four 0.0 sub-scores and latency 0), an evaluator that returned
\* has exactly what it returned, and once every evaluator has been awaited
\* score_model goes on to return its AuditResult: no evaluator exception
\* makes it raise.
C1_EvaluatorFailureIsolated ==
    /\ \A m \in ScalarNames :
          coro[m] = "finished" =>
              /\ m \in DOMAIN results
              /\ outcome[m].kind = "raise" => results[m] = MetricResultOf(0, 0)
              /\ outcome[m].kind = "return" => results[m] = outcome[m].value
    /\ coro["size_score"] = "finished" =>
          /\ {"size_score", "size_score_latency"} \subseteq DOMAIN results
          /\ outcome["size_score"].kind = "raise" =>
                /\ results["size_score"] = SizeScoreOf(0, 0, 0, 0)
                /\ results["size_score_latency"].value = 0
          /\ outcome["size_score"].kind = "return" =>
                /\ results["size_score"] = outcome["size_score"].value.size_scores
                /\ results["size_score_latency"].value =
                       outcome["size_score"].value.latency
    /\ (AllFinished /\ IsMapping(config)) =>
          pc \in {"net_score", "build_result", "returned"}

C1_Witness ==
    /\ pc = "returned"
    /\ outcome["ramp_up_time"].kind = "raise"
    /\ outcome["size_score"].kind = "raise"
    /\ outcome["license"].kind = "return"
    /\ audit.ramp_up_time = 0
    /\ audit.license = 700

\* C2: when get_model_info, get_readme_content or get_model_config raises,
\* the exception does not leave _enrich_context or score_model.
C2_ProviderFailureContained ==
    ~(pc = "raised" /\ raised_by \in ProviderCalls)

\* C3: the three fetches are called in the order hosting metadata, README,
\* config, each after the previous one returned, and no evaluator starts
\* before the last of them has returned.
C3_EnrichBeforeFanOut ==
    /\ IsPrefix(calls, EnrichmentCalls)
    /\ \A m \in MetricNames : Started(m) => calls = EnrichmentCalls

C3_Witness ==
    /\ coro["ramp_up_time"] = "running"
    /\ calls = EnrichmentCalls

\* C4: the evaluators run concurrently, with no ordering between them: while
\* one evaluator is in progress, any evaluator that has not started yet can
\* start.
C4_EvaluatorsConcurrent ==
    \A m \in MetricNames : \A n \in MetricNames :
        (pc = "await_tasks" /\ coro[m] = "running" /\ coro[n] = "created")
            => ENABLED StartTask(n)

\* The scalar contribution of metric m, times 4: its score, or for
\* size_score the sum of the four device sub-scores
Contribution4(m) ==
    IF m = "size_score" THEN SizeSum(results[m]) ELSE 4 * results[m].score

\* The metrics with a registered weight
Registered == MetricNames \cap DOMAIN WeightsOf(config)

AppliedWeight == SumOver(Registered, [m \in Registered |-> WeightsOf(config)[m]])

WeightedSum4 ==
    SumOver(Registered,
            [m \in Registered |-> WeightsOf(config)[m] * Contribution4(m)])

NonNegativeWeights ==
    \A m \in DOMAIN WeightsOf(config) : WeightsOf(config)[m] >= 0

NetScoreComputed == pc \in {"build_result", "returned"}

\* C5: with non-negative weights of positive total, the net score is the
\* weighted average of the metric scores over the total weight applied,
\* size_score contributing the mean of its four sub-scores.
C5_NetScoreIsWeightedAverage ==
    (NetScoreComputed /\ NonNegativeWeights /\ AppliedWeight > 0) =>
        net_score.num * (4 * AppliedWeight) = WeightedSum4 * net_score.den

\* C6: when the total applied weight is zero the net score is exactly 0 and
\* no division by zero happens.
C6_ZeroWeightGivesZero ==
    /\ raised_by # "ZeroDivisionError"
    /\ (AllFinished /\ IsMapping(config) /\ AppliedWeight = 0) =>
          /\ pc # "raised"
          /\ NetScoreComputed => (net_score.num = 0 /\ net_score.den > 0)

C6_Witness ==
    /\ pc = "returned"
    /\ config_file = "zero_weights"
    /\ results["license"].score = 700
    /\ audit.net_score.num = 0

Unit(x) == 0 <= x /\ x <= 1000

\* C7: a returned AuditResult has its net score, its 7 scalar scores and its
\* 4 size sub-scores in [0,1] and every latency >= 0.
C7_AuditResultInRange ==
    (pc = "returned" /\ NonNegativeWeights) =>
        /\ audit.net_score.den > 0
        /\ 0 <= audit.net_score.num
        /\ audit.net_score.num <= 1000 * audit.net_score.den
        /\ Unit(audit.ramp_up_time) /\ Unit(audit.bus_factor)
        /\ Unit(audit.performance_claims) /\ Unit(audit.license)
        /\ Unit(audit.dataset_and_code_score) /\ Unit(audit.dataset_quality)
        /\ Unit(audit.code_quality)
        /\ Unit(audit.size_score.raspberry_pi)
        /\ Unit(audit.size_score.jetson_nano)
        /\ Unit(audit.size_score.desktop_pc)
        /\ Unit(audit.size_score.aws_server)
        /\ audit.net_score_latency >= 0
        /\ audit.ramp_up_time_latency >= 0 /\ audit.bus_factor_latency >= 0
        /\ audit.performance_claims_latency >= 0 /\ audit.license_latency >= 0
        /\ audit.size_score_latency >= 0
        /\ audit.dataset_and_code_score_latency >= 0
        /\ audit.dataset_quality_latency >= 0
        /\ audit.code_quality_latency >= 0

C7_Witness ==
    /\ pc = "returned"
    /\ config_file = "equal_large"
    /\ outcome["bus_factor"].kind = "raise"
    /\ audit.ramp_up_time = 1000
    /\ audit.size_score.aws_server = 1000
    /\ audit.net_score_latency > 0

MetricPhase == pc \in {"create_tasks", "await_tasks", "net_score", "build_result"}

\* C8: from the end of enrichment to the end of score_model no step changes
\* model_url, datasets, code_repos, hf_info, readme_content or config_data.
C8_ContextReadOnly == [][MetricPhase => context' = context]_vars

C8_Witness ==
    /\ pc = "returned"
    /\ context.hf_info = HfInfoValue
    /\ context.readme_content = None
    /\ Len(context.datasets) = 1
    /\ outcome["dataset_quality"].kind = "return"

\* C9: when the configuration file is absent or malformed the scorer holds
\* the built-in default configuration and scoring does not fail because of
\* the configuration.
C9_MalformedConfigFallsBack ==
    (pc # "new" /\ config_file \in MalformedFiles) =>
        /\ config = get_default_config
        /\ raised_by # "AttributeError"

----------------------------------------------------------------------------
(* Properties of the batch driver *)

ModelUrlFound ==
    \E i \in 1..Len(url_file.lines) :
        /\ NonBlank(url_file.lines[i])
        /\ classify_url(url_file.lines[i]) = "MODEL"

ScoredCount == Cardinality({i \in 1..Len(stdout) : stdout[i].keys = EntryKeys})

\* C10: main exits non-zero exactly when the input file is missing or
\* unreadable, no model URL is found, or no model was successfully scored.
C10_ExitCode ==
    cli_pc = "done" =>
        (exit_code # 0 <=>
            \/ Len(argv) < 1
            \/ url_file.state # "ok"
            \/ ~ModelUrlFound
            \/ ScoredCount = 0)

\* The stripped non-blank lines that classify_url calls MODEL, in input order
IsModelLine(line) == NonBlank(line) /\ classify_url(line) = "MODEL"

ModelLines == SelectSeq(url_file.lines, IsModelLine)

\* p can be had from q by dropping elements
RECURSIVE IsSubsequence(_, _)
IsSubsequence(p, q) ==
    IF p = <<>> THEN TRUE
    ELSE IF q = <<>> THEN FALSE
    ELSE IF Head(p) = Head(q) THEN IsSubsequence(Tail(p), Tail(q))
    ELSE IsSubsequence(p, Tail(q))

StdoutUrls == [i \in 1..Len(stdout) |-> stdout[i].url]

ModelLineUrls == [i \in 1..Len(ModelLines) |-> ModelLines[i].text]

\* C11: when main returns, standard output holds exactly one record per
\* successfully scored model URL, in input order: every line on it is the
\* record of a scored model with category MODEL, and no line belongs to a
\* URL classified DATASET or CODE.
C11_OneRecordPerScoredModel ==
    cli_pc = "done" =>
        /\ Len(stdout) = ScoredCount
        /\ IsSubsequence(StdoutUrls, ModelLineUrls)
        /\ \A i \in 1..Len(stdout) : stdout[i].category = "MODEL"

\* C12: a model whose processing raises is skipped: nothing is written to
\* standard output for it, so every line on standard output is a complete
\* record with all the required keys, and the models after it are processed.
C12_FailedModelSkipped ==
    /\ \A i \in 1..Len(stdout) : stdout[i].keys = EntryKeys
    /\ cli_pc = "done" /\ exit_code = 0 => url_i > Len(urls)

----------------------------------------------------------------------------
(* URL parsing and context building: src/urls.py *)

\* Longest list of URLs given to build_model_contexts
MaxUrls == 4

\* A string that is one "/"-separated part of a URL path: words are the
\* pieces re.split(r"[/_\-\s.]+", ...)
\* cuts its lower-cased text into, sep the separator that stands between them
PartSep(words, sep) == [type |-> "str", words |-> words, sep |-> sep]

\* A part whose words are joined by "-"
Part(words) == PartSep(words, "-")

\* The text of a part, as its words and the separators between them
RECURSIVE Text(_)
Text(part) ==
    IF Len(part.words) <= 1 THEN part.words
    ELSE <<part.words[1], part.sep>>
         \o Text(PartSep(Tail(part.words), part.sep))

\* A URL string as urlparse shows it: the netloc and the non-empty parts of
\* the path; tail is url.split("/")[-1]
UrlOf(text, netloc, path_parts, tail) ==
    [url |-> text, netloc |-> netloc, path_parts |-> path_parts, tail |-> tail]

EmptyStr == Part(<<>>)

HfModelBert ==
    UrlOf("https://huggingface.co/google/bert-base-uncased", "huggingface.co",
          <<Part(<<"google">>), Part(<<"bert", "base", "uncased">>)>>,
          Part(<<"bert", "base", "uncased">>))

HfModelWhisper ==
    UrlOf("https://huggingface.co/openai/whisper-tiny", "huggingface.co",
          <<Part(<<"openai">>), Part(<<"whisper", "tiny">>)>>,
          Part(<<"whisper", "tiny">>))

HfModelGpt2 ==
    UrlOf("https://huggingface.co/gpt2", "huggingface.co",
          <<Part(<<"gpt2">>)>>, Part(<<"gpt2">>))

HfDatasetSquad ==
    UrlOf("https://huggingface.co/datasets/rajpurkar/squad", "huggingface.co",
          <<Part(<<"datasets">>), Part(<<"rajpurkar">>), Part(<<"squad">>)>>,
          Part(<<"squad">>))

GithubBert ==
    UrlOf("https://github.com/google-research/bert", "github.com",
          <<Part(<<"google", "research">>), Part(<<"bert">>)>>,
          Part(<<"bert">>))

GithubWhisper ==
    UrlOf("https://github.com/openai/whisper", "github.com",
          <<Part(<<"openai">>), Part(<<"whisper">>)>>, Part(<<"whisper">>))

GithubOwnerOnly ==
    UrlOf("https://github.com/google", "github.com",
          <<Part(<<"google">>)>>, Part(<<"google">>))

UnknownCsv ==
    UrlOf("https://example.com/files/v2.csv", "example.com",
          <<Part(<<"files">>), PartSep(<<"v2", "csv">>, ".")>>,
          PartSep(<<"v2", "csv">>, "."))

HfRoot ==
    UrlOf("https://huggingface.co/", "huggingface.co", <<>>, EmptyStr)

UrlSamples ==
    { HfModelBert, HfModelWhisper, HfModelGpt2, HfDatasetSquad, GithubBert,
      GithubWhisper, GithubOwnerOnly, UnknownCsv, HfRoot }

\* The words of the samples for which str.isalpha() is false
NonAlphaWords == {"gpt2", "v2"}

ParsedURLOf(u, category, name, platform, owner, repo) ==
    [url |-> u.url, category |-> category, name |-> name,
     platform |-> platform, owner |-> owner, repo |-> repo]

ValueError == [type |-> "ValueError"]

\* The whole URL as a name: its words are those of the netloc and the path
\* (the scheme "https:" is one non-alphabetic word)
WholeUrlName(u) == <<Part(<<"https:">>)>> \o u.path_parts

\* url.split("/")[-1]
LastSegmentName(u) == <<u.tail>>

parse_huggingface_url(u) ==
    LET path_parts == u.path_parts
        n == Len(path_parts)
    IN IF n = 0 THEN ValueError
       ELSE IF n >= 2 /\ path_parts[1] = Part(<<"datasets">>)
       THEN LET owner == path_parts[2]
                repo == IF n > 2 THEN path_parts[3] ELSE None
            IN ParsedURLOf(u, "DATASET",
                           IF repo # None THEN <<owner, repo>>
                           ELSE LastSegmentName(u),
                           "huggingface", owner, repo)
       ELSE LET owner == path_parts[1]
                repo == IF n > 1 THEN path_parts[2] ELSE None
            IN ParsedURLOf(u, "MODEL",
                           IF repo # None THEN <<repo>>
                           ELSE LastSegmentName(u),
                           "huggingface", owner, repo)

parse_github_url(u) ==
    LET path_parts == u.path_parts
    IN IF Len(path_parts) < 2 THEN ValueError
       ELSE ParsedURLOf(u, "CODE", <<path_parts[1], path_parts[2]>>,
                        "github", path_parts[1], path_parts[2])

parse_url(u) ==
    IF u.netloc = "huggingface.co" THEN parse_huggingface_url(u)
    ELSE IF u.netloc = "github.com" THEN parse_github_url(u)
    ELSE ParsedURLOf(u, "DATASET",
                     IF u.tail # EmptyStr THEN LastSegmentName(u)
                     ELSE WholeUrlName(u),
                     "unknown", None, None)

\* The set of the parts _extract_name_parts keeps: alphabetic, longer than 2
extract_name_parts(name) ==
    { w \in UNION { { name[i].words[j] : j \in 1..Len(name[i].words) }
                    : i \in 1..Len(name) } :
        w \notin NonAlphaWords /\ Len(w) > 2 }

IsRelevant(model_url, resource) ==
    \/ extract_name_parts(model_url.name) \cap extract_name_parts(resource.name) # {}
    \/ model_url.owner = resource.owner

find_relevant_resources_last_only(model_url, resources) ==
    IF resources = <<>> THEN <<>>
    ELSE LET relevant == SelectSeq(resources,
                                   LAMBDA r : IsRelevant(model_url, r))
         IN IF relevant = <<>>
            THEN SubSeq(resources, Len(resources), Len(resources))
            ELSE relevant

find_relevant_resources(model_url, resources) ==
    IF resources = <<>> THEN <<>>
    ELSE LET relevant == SelectSeq(resources,
                                   LAMBDA r : IsRelevant(model_url, r))
         IN IF relevant = <<>>
            THEN IF Len(resources) >= 2
                 THEN SubSeq(resources, Len(resources) - 1, Len(resources))
                 ELSE resources
            ELSE relevant

BmcInit ==
    /\ bmc_pc = "start"
    /\ url_list \in SeqsUpTo(UrlSamples, MaxUrls)
    /\ parsed_urls = <<>>
    /\ bmc_i = 0
    /\ pending_datasets = <<>>
    /\ pending_code = <<>>
    /\ contexts = <<>>

\* urls.py:93-98
ParseUrls ==
    /\ bmc_pc = "start"
    /\ IF \E i \in 1..Len(url_list) : parse_url(url_list[i]) = ValueError
       THEN /\ bmc_pc' = "raised"
            /\ UNCHANGED <<parsed_urls, bmc_i>>
       ELSE /\ parsed_urls' = [i \in 1..Len(url_list) |-> parse_url(url_list[i])]
            /\ bmc_i' = 1
            /\ bmc_pc' = "loop"
    /\ UNCHANGED <<url_list, pending_datasets, pending_code, contexts>>
    /\ UNCHANGED not_url_vars

\* urls.py:101-102
AppendDataset ==
    /\ bmc_pc = "loop"
    /\ bmc_i <= Len(parsed_urls)
    /\ parsed_urls[bmc_i].category = "DATASET"
    /\ pending_datasets' = Append(pending_datasets, parsed_urls[bmc_i])
    /\ bmc_i' = bmc_i + 1
    /\ UNCHANGED <<bmc_pc, url_list, parsed_urls, pending_code, contexts>>
    /\ UNCHANGED not_url_vars

\* urls.py:103-104
AppendCode ==
    /\ bmc_pc = "loop"
    /\ bmc_i <= Len(parsed_urls)
    /\ parsed_urls[bmc_i].category = "CODE"
    /\ pending_code' = Append(pending_code, parsed_urls[bmc_i])
    /\ bmc_i' = bmc_i + 1
    /\ UNCHANGED <<bmc_pc, url_list, parsed_urls, pending_datasets, contexts>>
    /\ UNCHANGED not_url_vars

\* The resources of the whole list, whatever their place in it
AllOf(category) == SelectSeq(parsed_urls, LAMBDA r : r.category = category)

AppendContextLookingAhead ==
    /\ bmc_pc = "loop"
    /\ bmc_i <= Len(parsed_urls)
    /\ parsed_urls[bmc_i].category = "MODEL"
    /\ contexts' =
          Append(contexts,
                 ModelContextOf(
                     parsed_urls[bmc_i],
                     find_relevant_resources(parsed_urls[bmc_i], AllOf("DATASET")),
                     find_relevant_resources(parsed_urls[bmc_i], AllOf("CODE"))))
    /\ bmc_i' = bmc_i + 1
    /\ UNCHANGED <<bmc_pc, url_list, parsed_urls, pending_datasets, pending_code>>
    /\ UNCHANGED not_url_vars

\* urls.py:105-114
AppendContext ==
    /\ bmc_pc = "loop"
    /\ bmc_i <= Len(parsed_urls)
    /\ parsed_urls[bmc_i].category = "MODEL"
    /\ contexts' =
          Append(contexts,
                 ModelContextOf(
                     parsed_urls[bmc_i],
                     find_relevant_resources(parsed_urls[bmc_i], pending_datasets),
                     find_relevant_resources(parsed_urls[bmc_i], pending_code)))
    /\ bmc_i' = bmc_i + 1
    /\ UNCHANGED <<bmc_pc, url_list, parsed_urls, pending_datasets, pending_code>>
    /\ UNCHANGED not_url_vars

\* urls.py:116
ReturnContexts ==
    /\ bmc_pc = "loop"
    /\ bmc_i > Len(parsed_urls)
    /\ bmc_pc' = "returned"
    /\ UNCHANGED <<url_list, parsed_urls, bmc_i, pending_datasets,
                   pending_code, contexts>>
    /\ UNCHANGED not_url_vars

UrlNext ==
    \/ ParseUrls
    \/ AppendDataset
    \/ AppendCode
    \/ AppendContext
    \/ ReturnContexts

UrlStart ==
    ScorerInit /\ CliIdle /\ BmcInit /\ GitIdle /\ HfIdle /\ EvalIdle /\ InsIdle

UrlSpec == UrlStart /\ [][UrlNext]_vars

----------------------------------------------------------------------------
(* Properties of build_model_contexts *)

CategoryAt(i) == parse_url(url_list[i]).category

\* The places of the MODEL URLs in the input, in input order
ModelPlaces ==
    SelectSeq([i \in 1..Len(url_list) |-> i], LAMBDA i : CategoryAt(i) = "MODEL")

\* Every element of refs is a URL of the given category found strictly
\* before place k of the input
AllBefore(refs, category, k) ==
    \A j \in 1..Len(refs) :
        \E p \in 1..(k - 1) :
            /\ CategoryAt(p) = category
            /\ parse_url(url_list[p]) = refs[j]

\* C13: build_model_contexts returns exactly one ModelContext per MODEL URL,
\* in input order, and every dataset or code reference linked to a model is
\* found strictly before that model's URL in the input; the input
\* [dataset, code, model] gives exactly one context whose candidates are the
\* preceding dataset and code, and a model with nothing before it gets empty
\* linked lists.
C13_OneContextPerModel ==
    bmc_pc = "returned" =>
        /\ Len(contexts) = Len(ModelPlaces)
        /\ \A k \in 1..Len(contexts) :
              /\ contexts[k].model_url = parse_url(url_list[ModelPlaces[k]])
              /\ AllBefore(contexts[k].datasets, "DATASET", ModelPlaces[k])
              /\ AllBefore(contexts[k].code_repos, "CODE", ModelPlaces[k])
        /\ ( /\ Len(url_list) = 3
             /\ CategoryAt(1) = "DATASET"
             /\ CategoryAt(2) = "CODE"
             /\ CategoryAt(3) = "MODEL" ) =>
              contexts = << ModelContextOf(parse_url(url_list[3]),
                                           <<parse_url(url_list[1])>>,
                                           <<parse_url(url_list[2])>>) >>
        /\ (Len(url_list) >= 1 /\ CategoryAt(1) = "MODEL") =>
              /\ contexts[1].datasets = <<>>
              /\ contexts[1].code_repos = <<>>

\* build_model_contexts has returned for an input [dataset, code, model]
\* whose dataset and code share neither a name part nor the owner with the
\* model
C13_Witness ==
    /\ bmc_pc = "returned"
    /\ url_list = <<HfDatasetSquad, GithubWhisper, HfModelBert>>
    /\ Len(contexts) = 1
    /\ contexts[1].datasets = <<parse_url(HfDatasetSquad)>>

----------------------------------------------------------------------------
(* Git analysis inside an evaluator: src/git_inspect.py GitInspector used   *)
(* by src/metrics/bus_factor.py _calculate_bus_factor_score                 *)

\* Longest context.code_repos
MaxRepos == 2

\* A ParsedURL of category CODE that is not on GitHub
NonGithubRepo ==
    [url |-> "https://gitlab.com/openai/whisper", category |-> "CODE",
     name |-> <<Part(<<"openai">>), Part(<<"whisper">>)>>,
     platform |-> "gitlab", owner |-> Part(<<"openai">>),
     repo |-> Part(<<"whisper">>)]

\* Two repositories whose owner or name holds an underscore
GithubTeamBert ==
    UrlOf("https://github.com/hf_team/bert", "github.com",
          <<PartSep(<<"hf", "team">>, "_"), Part(<<"bert">>)>>,
          Part(<<"bert">>))

GithubHfTeamBert ==
    UrlOf("https://github.com/hf/team_bert", "github.com",
          <<Part(<<"hf">>), PartSep(<<"team", "bert">>, "_")>>,
          PartSep(<<"team", "bert">>, "_"))

CodeRepoSamples ==
    { parse_url(GithubBert), parse_url(GithubWhisper), NonGithubRepo,
      parse_url(GithubTeamBert), parse_url(GithubHfTeamBert) }

\* git_inspect.py:40-44: the text of f"{owner}_{repo}", or "unknown"
repo_name(repo_url) ==
    IF /\ repo_url.owner # None /\ repo_url.owner.words # <<>>
       /\ repo_url.repo # None /\ repo_url.repo.words # <<>>
    THEN Text(repo_url.owner) \o <<"_">> \o Text(repo_url.repo)
    ELSE <<"unknown">>

RepoNames == {repo_name(r) : r \in CodeRepoSamples}

\* A clone_worker thread that has not ended
Alive(t) == threads[t] \in {"started", "writing"}

\* Some clone_worker is creating files under cache_dir/name
WriterIn(name) ==
    \E t \in DOMAIN threads :
        threads[t] = "writing" /\ repo_name(code_repos[t]) = name

\* shutil.rmtree of a tree removes it; when another thread is creating files
\* in the tree it can also fail part-way (OSError: directory not empty) and
\* leave the tree behind
RmtreeOutcomes == {"removed", "left"}

RmtreeCan(o, name) ==
    \/ o = "removed"
    \/ o = "left" /\ WriterIn(name)

RmtreeCacheDirCan(o) ==
    \/ o = "removed"
    \/ o = "left" /\ \E name \in RepoNames : WriterIn(name)

\* One clone_repo call as the log keeps it: dir is the state of clone_path
\* when the call returns
CloneReturn(name, value, how, dir) ==
    [repo_name |-> name, value |-> value, how |-> how, dir |-> dir]

GitInit ==
    /\ git_pc = "start"
    /\ code_repos \in SeqsUpTo(CodeRepoSamples, MaxRepos)
    /\ repo_i = 0
    /\ cache_dir = "not created"
    /\ clone_dirs = [n \in RepoNames |-> "absent"]
    /\ threads = [t \in 1..Len(code_repos) |-> "not started"]
    /\ clone_log = <<>>
    /\ cleanup_called = FALSE

\* bus_factor.py:43: no code repository, no GitInspector
NoCodeRepos ==
    /\ git_pc = "start"
    /\ code_repos = <<>>
    /\ git_pc' = "returned"
    /\ UNCHANGED <<code_repos, repo_i, cache_dir, clone_dirs, threads,
                   clone_log, cleanup_called>>
    /\ UNCHANGED not_git_vars

\* bus_factor.py:43-44, git_inspect.py:26-29
CreateInspector ==
    /\ git_pc = "start"
    /\ code_repos # <<>>
    /\ cache_dir' = "exists"
    /\ repo_i' = 1
    /\ git_pc' = "loop"
    /\ UNCHANGED <<code_repos, clone_dirs, threads, clone_log, cleanup_called>>
    /\ UNCHANGED not_git_vars

\* git_inspect.py:37-38
CloneNotGithub ==
    /\ git_pc = "loop"
    /\ repo_i <= Len(code_repos)
    /\ code_repos[repo_i].platform # "github"
    /\ clone_log' = Append(clone_log,
                           CloneReturn(repo_name(code_repos[repo_i]), "None",
                                       "not github",
                                       clone_dirs[repo_name(code_repos[repo_i])]))
    /\ repo_i' = repo_i + 1
    /\ UNCHANGED <<git_pc, code_repos, cache_dir, clone_dirs, threads,
                   cleanup_called>>
    /\ UNCHANGED not_git_vars

\* git_inspect.py:47-50
CloneCacheHit ==
    /\ git_pc = "loop"
    /\ repo_i <= Len(code_repos)
    /\ code_repos[repo_i].platform = "github"
    /\ clone_dirs[repo_name(code_repos[repo_i])] # "absent"
    /\ clone_log' = Append(clone_log,
                           CloneReturn(repo_name(code_repos[repo_i]), "path",
                                       "cache hit",
                                       clone_dirs[repo_name(code_repos[repo_i])]))
    /\ git_pc' = "analyze"
    /\ UNCHANGED <<code_repos, repo_i, cache_dir, clone_dirs, threads,
                   cleanup_called>>
    /\ UNCHANGED not_git_vars

\* git_inspect.py:52-72
CloneStartThread ==
    /\ git_pc = "loop"
    /\ repo_i <= Len(code_repos)
    /\ code_repos[repo_i].platform = "github"
    /\ clone_dirs[repo_name(code_repos[repo_i])] = "absent"
    /\ threads' = [threads EXCEPT ![repo_i] = "started"]
    /\ git_pc' = "join"
    /\ UNCHANGED <<code_repos, repo_i, cache_dir, clone_dirs, clone_log,
                   cleanup_called>>
    /\ UNCHANGED not_git_vars

\* git_inspect.py:59-64: porcelain.clone creates clone_path
WorkerMkdir(t) ==
    /\ t \in DOMAIN threads
    /\ threads[t] = "started"
    /\ IF cache_dir = "exists" /\ clone_dirs[repo_name(code_repos[t])] = "absent"
       THEN /\ clone_dirs' = [clone_dirs EXCEPT ![repo_name(code_repos[t])] = "partial"]
            /\ threads' = [threads EXCEPT ![t] = "writing"]
       ELSE /\ threads' = [threads EXCEPT ![t] = "failed"]
            /\ UNCHANGED clone_dirs
    /\ UNCHANGED <<git_pc, code_repos, repo_i, cache_dir, clone_log,
                   cleanup_called>>
    /\ UNCHANGED not_git_vars

\* git_inspect.py:59-65: porcelain.clone returns
WorkerFinish(t) ==
    /\ t \in DOMAIN threads
    /\ threads[t] = "writing"
    /\ IF clone_dirs[repo_name(code_repos[t])] = "partial"
       THEN /\ clone_dirs' = [clone_dirs EXCEPT ![repo_name(code_repos[t])] = "complete"]
            /\ threads' = [threads EXCEPT ![t] = "done"]
       ELSE /\ threads' = [threads EXCEPT ![t] = "failed"]
            /\ UNCHANGED clone_dirs
    /\ UNCHANGED <<git_pc, code_repos, repo_i, cache_dir, clone_log,
                   cleanup_called>>
    /\ UNCHANGED not_git_vars

\* git_inspect.py:66-67: porcelain.clone raises
WorkerFail(t) ==
    /\ t \in DOMAIN threads
    /\ Alive(t)
    /\ threads' = [threads EXCEPT ![t] = "failed"]
    /\ UNCHANGED <<git_pc, code_repos, repo_i, cache_dir, clone_dirs,
                   clone_log, cleanup_called>>
    /\ UNCHANGED not_git_vars

\* clone_path after "if os.path.exists(clone_path): shutil.rmtree(clone_path,
\* ignore_errors=True)"
AfterRmtree(o, name) ==
    IF clone_dirs[name] # "absent" /\ o = "removed"
    THEN [clone_dirs EXCEPT ![name] = "absent"]
    ELSE clone_dirs

\* git_inspect.py:75, 84-87: the thread ended within the timeout, no exception
JoinDone ==
    /\ git_pc = "join"
    /\ threads[repo_i] = "done"
    /\ clone_log' = Append(clone_log,
                           CloneReturn(repo_name(code_repos[repo_i]), "path",
                                       "cloned",
                                       clone_dirs[repo_name(code_repos[repo_i])]))
    /\ git_pc' = "analyze"
    /\ UNCHANGED <<code_repos, repo_i, cache_dir, clone_dirs, threads,
                   cleanup_called>>
    /\ UNCHANGED not_git_vars

\* git_inspect.py:75, 84-85, 89-94: the thread ended with an exception
JoinFailed(o) ==
    /\ git_pc = "join"
    /\ threads[repo_i] = "failed"
    /\ RmtreeCan(o, repo_name(code_repos[repo_i]))
    /\ clone_dirs' = AfterRmtree(o, repo_name(code_repos[repo_i]))
    /\ clone_log' = Append(clone_log,
                           CloneReturn(repo_name(code_repos[repo_i]), "None",
                                       "failed",
                                       clone_dirs'[repo_name(code_repos[repo_i])]))
    /\ repo_i' = repo_i + 1
    /\ git_pc' = "loop"
    /\ UNCHANGED <<code_repos, cache_dir, threads, cleanup_called>>
    /\ UNCHANGED not_git_vars

\* git_inspect.py:75-82: the thread is still alive after join(timeout)
JoinTimeout(o) ==
    /\ git_pc = "join"
    /\ Alive(repo_i)
    /\ RmtreeCan(o, repo_name(code_repos[repo_i]))
    /\ clone_dirs' = AfterRmtree(o, repo_name(code_repos[repo_i]))
    /\ clone_log' = Append(clone_log,
                           CloneReturn(repo_name(code_repos[repo_i]), "None",
                                       "timeout",
                                       clone_dirs'[repo_name(code_repos[repo_i])]))
    /\ repo_i' = repo_i + 1
    /\ git_pc' = "loop"
    /\ UNCHANGED <<code_repos, cache_dir, threads, cleanup_called>>
    /\ UNCHANGED not_git_vars

\* bus_factor.py:48-63: analyze_repository returns, the score is set, break
AnalyzeReturns ==
    /\ git_pc = "analyze"
    /\ git_pc' = "finally after break"
    /\ UNCHANGED <<code_repos, repo_i, cache_dir, clone_dirs, threads,
                   clone_log, cleanup_called>>
    /\ UNCHANGED not_git_vars

\* bus_factor.py:49: analyze_repository raises (git_inspect.py:102-106
\* catches NotGitRepository only)
AnalyzeRaises ==
    /\ git_pc = "analyze"
    /\ git_pc' = "finally after raise"
    /\ UNCHANGED <<code_repos, repo_i, cache_dir, clone_dirs, threads,
                   clone_log, cleanup_called>>
    /\ UNCHANGED not_git_vars

\* bus_factor.py:46: the loop has gone through every code repository
LoopExhausted ==
    /\ git_pc = "loop"
    /\ repo_i > Len(code_repos)
    /\ git_pc' = "finally after loop"
    /\ UNCHANGED <<code_repos, repo_i, cache_dir, clone_dirs, threads,
                   clone_log, cleanup_called>>
    /\ UNCHANGED not_git_vars

InFinally == git_pc \in {"finally after break", "finally after raise",
                          "finally after loop"}

\* bus_factor.py:64-65, git_inspect.py:343-349: cleanup, then the evaluator
\* goes on (bus_factor.py:67-69) or the exception propagates
Cleanup(o) ==
    /\ InFinally
    /\ RmtreeCacheDirCan(o)
    /\ IF cache_dir = "exists" /\ o = "removed"
       THEN /\ cache_dir' = "removed"
            /\ clone_dirs' = [n \in RepoNames |-> "absent"]
       ELSE UNCHANGED <<cache_dir, clone_dirs>>
    /\ cleanup_called' = TRUE
    /\ git_pc' = IF git_pc = "finally after raise" THEN "raised" ELSE "returned"
    /\ UNCHANGED <<code_repos, repo_i, threads, clone_log>>
    /\ UNCHANGED not_git_vars

GitNext ==
    \/ NoCodeRepos
    \/ CreateInspector
    \/ CloneNotGithub
    \/ CloneCacheHit
    \/ CloneStartThread
    \/ \E t \in 1..MaxRepos : WorkerMkdir(t)
    \/ \E t \in 1..MaxRepos : WorkerFinish(t)
    \/ \E t \in 1..MaxRepos : WorkerFail(t)
    \/ JoinDone
    \/ \E o \in RmtreeOutcomes : JoinFailed(o)
    \/ \E o \in RmtreeOutcomes : JoinTimeout(o)
    \/ AnalyzeReturns
    \/ AnalyzeRaises
    \/ LoopExhausted
    \/ \E o \in RmtreeOutcomes : Cleanup(o)

GitStart ==
    ScorerInit /\ CliIdle /\ UrlIdle /\ GitInit /\ HfIdle /\ EvalIdle /\ InsIdle

GitSpec == GitStart /\ [][GitNext]_vars

----------------------------------------------------------------------------
(* Properties of GitInspector *)

\* C14: a clone_repo call whose clone exceeds the timeout returns None with
\* the partial directory discarded, and no later clone_repo call of the same
\* inspector for the same repository returns that partial clone as a cache
\* hit.
C14_TimedOutCloneDiscarded ==
    \A i \in 1..Len(clone_log) :
        clone_log[i].how = "timeout" =>
            /\ clone_log[i].value = "None"
            /\ clone_log[i].dir = "absent"
            /\ \A j \in (i + 1)..Len(clone_log) :
                  ( /\ clone_log[j].repo_name = clone_log[i].repo_name
                    /\ clone_log[j].how = "cache hit" ) =>
                      clone_log[j].dir # "partial"

\* C15: when an evaluator that created a GitInspector has finished, by
\* returning or by raising, cleanup has been called and the inspector's cache
\* directory no longer exists, also while a timed-out clone_worker is still
\* running.
C15_CacheDirRemoved ==
    (git_pc \in {"returned", "raised"} /\ cache_dir # "not created") =>
        /\ cleanup_called
        /\ cache_dir = "removed"

----------------------------------------------------------------------------
(* Hub access: src/hf_api.py HuggingFaceAPI *)

HfMethods == {"get_model_info", "get_readme_content", "get_model_config"}

\* The references the methods are called with: a model with owner and repo,
\* a model URL with one path part (repo is None), a GitHub repository and a
\* URL of an unknown platform
HfRefs ==
    { parse_url(HfModelBert), parse_url(HfModelGpt2), parse_url(GithubBert),
      parse_url(UnknownCsv) }

\* hf_api.py:24, 123, 145
OnHub(ref) == ref.platform = "huggingface" /\ ref.repo # None

\* hf_api.py:134
readme_files == <<"README.md", "readme.md", "README.txt", "readme.txt">>

\* hf_api.py:152
config_files == <<"config.json", "model_index.json", "tokenizer.json">>

\* What self.api.model_info does: it returns, or raises
\* RepositoryNotFoundError or another exception
ModelInfoOutcomes == {"info", "RepositoryNotFoundError", "Exception"}

\* What list_repo_files does
ListFilesOutcomes == {"files", "Exception"}

\* What download_file returns: None when hf_hub_download or the read raised
\* (hf_api.py:117-119), else the text of the file
Contents == {"", "{\"model_type\": \"bert\"}", "not json", "[[[[ ... ]]]]"}

DownloadOutcomes == {None} \cup {[type |-> "str", text |-> c] : c \in Contents}

\* Python truthiness of what download_file returned
Truthy(content) == content # None /\ content.text # ""

\* json.loads(content): the parsed value, json.JSONDecodeError for text that
\* is not JSON, RecursionError for JSON nested deeper than the interpreter's
\* recursion limit
json_loads(content) ==
    IF content.text = "{\"model_type\": \"bert\"}"
    THEN [kind |-> "return", value |-> [type |-> "dict", of |-> "json"]]
    ELSE IF content.text = "[[[[ ... ]]]]"
    THEN [kind |-> "raise", exception |-> "RecursionError"]
    ELSE [kind |-> "raise", exception |-> "JSONDecodeError"]

HubCall(name, ok) == [call |-> name, ok |-> ok]

Returned(v) == [kind |-> "return", value |-> v]

Raised(e) == [kind |-> "raise", exception |-> e]

InfoDict(files) == [type |-> "dict", of |-> "hf_info", files |-> files]

HfInit ==
    /\ hf_pc = "start"
    /\ hf_method \in HfMethods
    /\ hf_ref \in HfRefs
    /\ file_i = 0
    /\ config_data = {}
    /\ hub_log = <<>>
    /\ hf_result = None

\* hf_api.py:24-25, 123-124, 145-146
NotOnHub ==
    /\ hf_pc = "start"
    /\ ~OnHub(hf_ref)
    /\ hf_result' = Returned(None)
    /\ hf_pc' = "done"
    /\ UNCHANGED <<hf_method, hf_ref, file_i, config_data, hub_log>>
    /\ UNCHANGED not_hf_vars

\* hf_api.py:27-48, 62-67: self.api.model_info
ModelInfo(o) ==
    /\ hf_pc = "start"
    /\ OnHub(hf_ref)
    /\ hf_method = "get_model_info"
    /\ hub_log' = Append(hub_log, HubCall("model_info", o = "info"))
    /\ IF o = "info"
       THEN /\ hf_pc' = "list_repo_files"
            /\ UNCHANGED hf_result
       ELSE /\ hf_result' = Returned(None)
            /\ hf_pc' = "done"
    /\ UNCHANGED <<hf_method, hf_ref, file_i, config_data>>
    /\ UNCHANGED not_hf_vars

\* hf_api.py:50-60
ListRepoFiles(o) ==
    /\ hf_pc = "list_repo_files"
    /\ hub_log' = Append(hub_log, HubCall("list_repo_files", o = "files"))
    /\ hf_result' = Returned(InfoDict(IF o = "files" THEN <<"config.json">>
                                      ELSE <<>>))
    /\ hf_pc' = "done"
    /\ UNCHANGED <<hf_method, hf_ref, file_i, config_data>>
    /\ UNCHANGED not_hf_vars

\* hf_api.py:126-134, 148-153
EnterLoop ==
    /\ hf_pc = "start"
    /\ OnHub(hf_ref)
    /\ hf_method \in {"get_readme_content", "get_model_config"}
    /\ file_i' = 1
    /\ hf_pc' = "loop"
    /\ UNCHANGED <<hf_method, hf_ref, config_data, hub_log, hf_result>>
    /\ UNCHANGED not_hf_vars

\* hf_api.py:136-139 with download_file (99-119)
DownloadReadme(content) ==
    /\ hf_pc = "loop"
    /\ hf_method = "get_readme_content"
    /\ file_i <= Len(readme_files)
    /\ hub_log' = Append(hub_log, HubCall(readme_files[file_i], content # None))
    /\ IF Truthy(content)
       THEN /\ hf_result' = Returned(content)
            /\ hf_pc' = "done"
            /\ UNCHANGED file_i
       ELSE /\ file_i' = file_i + 1
            /\ UNCHANGED <<hf_pc, hf_result>>
    /\ UNCHANGED <<hf_method, hf_ref, config_data>>
    /\ UNCHANGED not_hf_vars

\* hf_api.py:141
NoReadme ==
    /\ hf_pc = "loop"
    /\ hf_method = "get_readme_content"
    /\ file_i > Len(readme_files)
    /\ hf_result' = Returned(None)
    /\ hf_pc' = "done"
    /\ UNCHANGED <<hf_method, hf_ref, file_i, config_data, hub_log>>
    /\ UNCHANGED not_hf_vars

\* hf_api.py:155-161 with download_file (99-119)
DownloadConfig(content) ==
    /\ hf_pc = "loop"
    /\ hf_method = "get_model_config"
    /\ file_i <= Len(config_files)
    /\ hub_log' = Append(hub_log, HubCall(config_files[file_i], content # None))
    /\ IF ~Truthy(content)
       THEN /\ file_i' = file_i + 1
            /\ UNCHANGED <<hf_pc, hf_result, config_data>>
       ELSE IF json_loads(content).kind = "return"
       THEN /\ config_data' = config_data \cup {config_files[file_i]}
            /\ file_i' = file_i + 1
            /\ UNCHANGED <<hf_pc, hf_result>>
       ELSE IF json_loads(content).exception = "JSONDecodeError"
       THEN /\ file_i' = file_i + 1
            /\ UNCHANGED <<hf_pc, hf_result, config_data>>
       ELSE /\ hf_result' = Raised(json_loads(content).exception)
            /\ hf_pc' = "done"
            /\ UNCHANGED <<file_i, config_data>>
    /\ UNCHANGED <<hf_method, hf_ref>>
    /\ UNCHANGED not_hf_vars

\* hf_api.py:163
ReturnConfig ==
    /\ hf_pc = "loop"
    /\ hf_method = "get_model_config"
    /\ file_i > Len(config_files)
    /\ hf_result' = Returned(IF config_data # {}
                             THEN [type |-> "dict", of |-> "config",
                                   files |-> config_data]
                             ELSE None)
    /\ hf_pc' = "done"
    /\ UNCHANGED <<hf_method, hf_ref, file_i, config_data, hub_log>>
    /\ UNCHANGED not_hf_vars

HfNext ==
    \/ NotOnHub
    \/ \E o \in ModelInfoOutcomes : ModelInfo(o)
    \/ \E o \in ListFilesOutcomes : ListRepoFiles(o)
    \/ EnterLoop
    \/ \E c \in DownloadOutcomes : DownloadReadme(c)
    \/ NoReadme
    \/ \E c \in DownloadOutcomes : DownloadConfig(c)
    \/ ReturnConfig

HfStart ==
    ScorerInit /\ CliIdle /\ UrlIdle /\ GitIdle /\ HfInit /\ EvalIdle /\ InsIdle

HfSpec == HfStart /\ [][HfNext]_vars

----------------------------------------------------------------------------
(* Properties of HuggingFaceAPI *)

\* The method made hub calls and every one of them failed
EveryHubCallFailed ==
    /\ hub_log # <<>>
    /\ \A i \in 1..Len(hub_log) : ~hub_log[i].ok

\* C16: get_model_info, get_readme_content and get_model_config never raise;
\* they return None for a reference that is not on the huggingface platform
\* or has no repo, and when the hub calls they make fail.
C16_HubMethodsNeverRaise ==
    hf_pc = "done" =>
        /\ hf_result.kind = "return"
        /\ ~OnHub(hf_ref) => hf_result = Returned(None)
        /\ EveryHubCallFailed => hf_result = Returned(None)

----------------------------------------------------------------------------
(* Text: a Python str is the sequence of its characters *)

UpperCase ==
    << "A", "B", "C", "D", "E", "F", "G", "H", "I", "J", "K", "L", "M",
       "N", "O", "P", "Q", "R", "S", "T", "U", "V", "W", "X", "Y", "Z" >>

LowerCase ==
    << "a", "b", "c", "d", "e", "f", "g", "h", "i", "j", "k", "l", "m",
       "n", "o", "p", "q", "r", "s", "t", "u", "v", "w", "x", "y", "z" >>

lower_char(c) ==
    IF \E i \in 1..Len(UpperCase) : UpperCase[i] = c
    THEN LowerCase[CHOOSE i \in 1..Len(UpperCase) : UpperCase[i] = c]
    ELSE c

\* str.lower()
lower(s) == [i \in 1..Len(s) |-> lower_char(s[i])]

\* sub in s
Contains(sub, s) ==
    \E i \in 0..(Len(s) - Len(sub)) : SubSeq(s, i + 1, i + Len(sub)) = sub

\* s.startswith(prefix)
startswith(s, prefix) ==
    Len(prefix) <= Len(s) /\ SubSeq(s, 1, Len(prefix)) = prefix

\* s.endswith(suffix)
endswith(s, suffix) ==
    /\ Len(suffix) <= Len(s)
    /\ SubSeq(s, Len(s) - Len(suffix) + 1, Len(s)) = suffix

\* s.replace(old, ""), old not empty
RECURSIVE remove(_, _)
remove(s, old) ==
    IF Len(s) < Len(old) THEN s
    ELSE IF startswith(s, old)
    THEN remove(SubSeq(s, Len(old) + 1, Len(s)), old)
    ELSE <<Head(s)>> \o remove(Tail(s), old)

\* any(indicator in s for indicator in indicators)
any_in(indicators, s) ==
    \E k \in 1..Len(indicators) : Contains(indicators[k], s)

\* An Optional[str] that is not None
Str(chars) == [type |-> "str", chars |-> chars]

\* Python truthiness of an Optional[str]
TruthyStr(x) == x # None /\ x.chars # <<>>

Min(a, b) == IF a <= b THEN a ELSE b

Max(a, b) == IF a >= b THEN a ELSE b

----------------------------------------------------------------------------
(* Evidence: what enrichment leaves in context.hf_info and                  *)
(* context.readme_content                                                   *)

\* "pytorch"
TagPytorch == <<"p", "y", "t", "o", "r", "c", "h">>

\* "license:mit"
TagLicenseMit == <<"l", "i", "c", "e", "n", "s", "e", ":", "m", "i", "t">>

\* "license:gpl-3.0"
TagLicenseGpl ==
    << "l", "i", "c", "e", "n", "s", "e", ":", "g", "p", "l", "-", "3",
       ".", "0" >>

\* "license:"
TagLicenseEmpty == <<"l", "i", "c", "e", "n", "s", "e", ":">>

\* "license:cc-by-4.0"
TagLicenseCc ==
    << "l", "i", "c", "e", "n", "s", "e", ":", "c", "c", "-", "b", "y",
       "-", "4", ".", "0" >>

\* hf_info["tags"]
TagLists ==
    { <<>>, <<TagPytorch>>, <<TagPytorch, TagLicenseMit>>, <<TagLicenseGpl>>,
      <<TagLicenseEmpty>>, <<TagLicenseCc>> }

\* "config.json"
FileConfig == <<"c", "o", "n", "f", "i", "g", ".", "j", "s", "o", "n">>

\* "train.py"
FileTrain == <<"t", "r", "a", "i", "n", ".", "p", "y">>

\* "Demo.ipynb"
FileNotebook == <<"D", "e", "m", "o", ".", "i", "p", "y", "n", "b">>

\* "examples/run.txt"
FileExample ==
    << "e", "x", "a", "m", "p", "l", "e", "s", "/", "r", "u", "n", ".",
       "t", "x", "t" >>

\* hf_info["files"]
FileLists == { <<>>, <<FileConfig>>, <<FileTrain>>, <<FileNotebook>>, <<FileExample>> }

\* The dict get_model_info returns (hf_api.py:37-58), with the keys the
\* evaluators read
HfInfoOf(tags, files, model_index) ==
    [type |-> "dict", tags |-> tags, files |-> files,
     model_index |-> model_index, downloads |-> 5000, likes |-> 20,
     last_modified |-> TRUE]

HfInfos ==
    { HfInfoOf(tg, <<>>, FALSE) : tg \in TagLists } \cup
    { HfInfoOf(<<>>, f, mi) : f \in FileLists, mi \in BOOLEAN }

\* "This model is licensed under MIT License."
SectionMit ==
    << "T", "h", "i", "s", " ", "m", "o", "d", "e", "l", " ", "i", "s",
       " ", "l", "i", "c", "e", "n", "s", "e", "d", " ", "u", "n", "d",
       "e", "r", " ", "M", "I", "T", " ", "L", "i", "c", "e", "n", "s",
       "e", "." >>

\* "Apache-2.0"
SectionApache == <<"A", "p", "a", "c", "h", "e", "-", "2", ".", "0">>

\* "BSD 3-Clause"
SectionBsd == <<"B", "S", "D", " ", "3", "-", "C", "l", "a", "u", "s", "e">>

\* "LGPL-2.1"
SectionLgpl == <<"L", "G", "P", "L", "-", "2", ".", "1">>

\* "This model is licensed under GPL v3."
SectionGpl ==
    << "T", "h", "i", "s", " ", "m", "o", "d", "e", "l", " ", "i", "s",
       " ", "l", "i", "c", "e", "n", "s", "e", "d", " ", "u", "n", "d",
       "e", "r", " ", "G", "P", "L", " ", "v", "3", "." >>

\* "AGPL-3.0"
SectionAgpl == <<"A", "G", "P", "L", "-", "3", ".", "0">>

\* "This model uses a custom license."
SectionCustom ==
    << "T", "h", "i", "s", " ", "m", "o", "d", "e", "l", " ", "u", "s",
       "e", "s", " ", "a", " ", "c", "u", "s", "t", "o", "m", " ", "l",
       "i", "c", "e", "n", "s", "e", "." >>

\* "GPL-3.0. Commercial use is limited."
SectionGplLimited ==
    << "G", "P", "L", "-", "3", ".", "0", ".", " ", "C", "o", "m", "m",
       "e", "r", "c", "i", "a", "l", " ", "u", "s", "e", " ", "i", "s",
       " ", "l", "i", "m", "i", "t", "e", "d", "." >>

\* What follows the "## License" heading of a README
LicenseSections ==
    { SectionMit, SectionApache, SectionBsd, SectionLgpl, SectionGpl,
      SectionAgpl, SectionCustom, SectionGplLimited }

\* "# Model\n"
LineTitle == <<"#", " ", "M", "o", "d", "e", "l", "\n">>

\* "pip install x\n"
LineInstall ==
    << "p", "i", "p", " ", "i", "n", "s", "t", "a", "l", "l", " ", "x",
       "\n" >>

\* "Trained on SQuAD\n"
LineTrained ==
    << "T", "r", "a", "i", "n", "e", "d", " ", "o", "n", " ", "S", "Q",
       "u", "A", "D", "\n" >>

\* "Usage:\n"
LineUsage == <<"U", "s", "a", "g", "e", ":", "\n">>

\* "See the Tutorial\n"
LineTutorial ==
    << "S", "e", "e", " ", "t", "h", "e", " ", "T", "u", "t", "o", "r",
       "i", "a", "l", "\n" >>

\* "Run eval.py to reproduce\n"
LineEvalScript ==
    << "R", "u", "n", " ", "e", "v", "a", "l", ".", "p", "y", " ", "t",
       "o", " ", "r", "e", "p", "r", "o", "d", "u", "c", "e", "\n" >>

\* "See paper\n"
LinePaper == <<"S", "e", "e", " ", "p", "a", "p", "e", "r", "\n">>

\* "No benchmark results\n"
LineNoResults ==
    << "N", "o", " ", "b", "e", "n", "c", "h", "m", "a", "r", "k", " ",
       "r", "e", "s", "u", "l", "t", "s", "\n" >>

\* "## License\n"
LicenseHeading == <<"#", "#", " ", "L", "i", "c", "e", "n", "s", "e", "\n">>

Chosen(line, take) == IF take THEN line ELSE <<>>

\* The README bodies: a title and any of four lines
ReadmeBodies ==
    { LineTitle \o Chosen(LineInstall, a) \o Chosen(LineTrained, b)
                \o Chosen(LineUsage, c) \o Chosen(LineTutorial, d) :
        a \in BOOLEAN, b \in BOOLEAN, c \in BOOLEAN, d \in BOOLEAN }

\* A README: its text is the body, then the license heading and section if
\* it has one
ReadmeOf(body, license_section) ==
    [type |-> "str", body |-> body, license_section |-> license_section]

EmptyReadme == ReadmeOf(<<>>, None)

\* README bodies that speak of performance: a title and any of four lines,
\* one of the last three at least
PerformanceBodies ==
    { LineTitle \o Chosen(LineTrained, b) \o Chosen(LineEvalScript, r)
                \o Chosen(LinePaper, p) \o Chosen(LineNoResults, n) :
        b \in BOOLEAN,
        <<r, p, n>> \in (BOOLEAN \X BOOLEAN \X BOOLEAN) \ {<<FALSE, FALSE, FALSE>>} }

Readmes ==
    {EmptyReadme} \cup
    { ReadmeOf(b, None) : b \in ReadmeBodies \cup PerformanceBodies } \cup
    { ReadmeOf(LineTitle, Str(sec)) : sec \in LicenseSections }

\* The characters of context.readme_content
readme_text(readme) ==
    IF readme.license_section = None THEN readme.body
    ELSE readme.body \o LicenseHeading \o readme.license_section.chars

\* Python truthiness of context.readme_content
TruthyReadme(readme) == readme # None /\ readme_text(readme) # <<>>

\* utils.py:79-101: the text the first pattern captures after the heading
parse_license_from_readme(readme) ==
    IF ~TruthyReadme(readme) THEN None ELSE readme.license_section

\* The contexts the evaluators are run on
EvalContexts ==
    { [ModelContextOf(parse_url(HfModelBert), ds, cr)
          EXCEPT !.hf_info = h, !.readme_content = r] :
        ds \in {<<>>, <<parse_url(HfDatasetSquad)>>},
        cr \in { <<>>, <<parse_url(GithubBert)>>,
                 <<parse_url(GithubBert), parse_url(GithubWhisper),
                   parse_url(GithubTeamBert)>> },
        h \in {None} \cup HfInfos,
        r \in {None} \cup Readmes }

----------------------------------------------------------------------------
(* License evaluator: src/metrics/license_score.py *)

\* "license:"
LicenseTagPrefix == <<"l", "i", "c", "e", "n", "s", "e", ":">>

\* license_score.py:46-49
compatible_licenses ==
    << <<"m", "i", "t">>,
       <<"a", "p", "a", "c", "h", "e", "2", ".", "0">>,
       <<"a", "p", "a", "c", "h", "e", "2", "0">>,
       <<"a", "p", "a", "c", "h", "e">>,
       <<"b", "s", "d", "3", "c", "l", "a", "u", "s", "e">>,
       <<"b", "s", "d", "2", "c", "l", "a", "u", "s", "e">>,
       <<"b", "s", "d">>,
       <<"b", "s", "d", "3">>,
       <<"b", "s", "d", "2">>,
       <<"b", "s", "d", "n", "e", "w">>,
       <<"b", "s", "d", "m", "o", "d", "i", "f", "i", "e", "d">>,
       <<"b", "s", "d", "s", "i", "m", "p", "l", "i", "f", "i", "e", "d">> >>

\* license_score.py:55-55
lgpl_variants ==
    << <<"l", "g", "p", "l">>,
       <<"l", "e", "s", "s", "e", "r", "g", "p", "l">>,
       <<"l", "g", "p", "l", "v", "2">>,
       <<"l", "g", "p", "l", "v", "3">>,
       <<"l", "g", "p", "l", "2", ".", "1">>,
       <<"l", "g", "p", "l", "3", ".", "0">> >>

\* license_score.py:61-61
gpl_variants ==
    << <<"g", "p", "l">>,
       <<"g", "p", "l", "v", "2">>,
       <<"g", "p", "l", "v", "3">>,
       <<"g", "p", "l", "2", ".", "0">>,
       <<"g", "p", "l", "3", ".", "0">>,
       <<"a", "g", "p", "l">>,
       <<"a", "g", "p", "l", "v", "3">> >>

\* license_score.py:28-33: the first tag that starts with "license:", with
\* that prefix removed
license_from_tags(hf_info) ==
    IF hf_info = None THEN None
    ELSE LET license_tags ==
                 SelectSeq(hf_info.tags,
                           LAMBDA tag : startswith(tag, LicenseTagPrefix))
         IN IF license_tags = <<>> THEN None
            ELSE Str(remove(license_tags[1], LicenseTagPrefix))

\* license_score.py:43
strip_separators(s) == SelectSeq(lower(s), LAMBDA c : c \notin {"-", "_", " "})

\* license_score.py:24-67, in thousandths
calculate_license_score(ctx) ==
    LET from_tags == license_from_tags(ctx.hf_info)
        license_info ==
            IF ~TruthyStr(from_tags) /\ TruthyReadme(ctx.readme_content)
            THEN parse_license_from_readme(ctx.readme_content)
            ELSE from_tags
    IN IF ~TruthyStr(license_info) THEN 300
       ELSE LET license_lower == strip_separators(license_info.chars)
            IN IF any_in(compatible_licenses, license_lower) THEN 1000
               ELSE IF any_in(lgpl_variants, license_lower) THEN 800
               ELSE IF any_in(gpl_variants, license_lower) THEN 700
               ELSE 500

----------------------------------------------------------------------------
(* Ramp-up evaluator: src/metrics/ramp_up.py *)

\* ramp_up.py:39-50
install_indicators ==
    << <<"i", "n", "s", "t", "a", "l", "l">>,
       <<"p", "i", "p", " ", "i", "n", "s", "t", "a", "l", "l">>,
       <<"c", "o", "n", "d", "a", " ", "i", "n", "s", "t", "a", "l", "l">>,
       <<"n", "p", "m", " ", "i", "n", "s", "t", "a", "l", "l">>,
       <<"y", "a", "r", "n", " ", "i", "n", "s", "t", "a", "l", "l">>,
       <<"s", "e", "t", "u", "p">>,
       <<"i", "n", "s", "t", "a", "l", "l", "a", "t", "i", "o", "n">>,
       <<"g", "e", "t", "t", "i", "n", "g", " ", "s", "t", "a", "r", "t", "e", "d">>,
       <<"r", "e", "q", "u", "i", "r", "e", "m", "e", "n", "t", "s">>,
       <<"d", "e", "p", "e", "n", "d", "e", "n", "c", "i", "e", "s">> >>

\* ramp_up.py:55-66
training_indicators ==
    << <<"t", "r", "a", "i", "n", "i", "n", "g">>,
       <<"t", "r", "a", "i", "n">>,
       <<"f", "i", "n", "e", "-", "t", "u", "n", "i", "n", "g">>,
       <<"f", "i", "n", "e", " ", "t", "u", "n", "i", "n", "g">>,
       <<"f", "i", "n", "e", "t", "u", "n", "e">>,
       <<"e", "v", "a", "l", "u", "a", "t", "i", "o", "n">>,
       <<"e", "v", "a", "l">>,
       <<"b", "e", "n", "c", "h", "m", "a", "r", "k">>,
       <<"t", "e", "s", "t">>,
       <<"v", "a", "l", "i", "d", "a", "t", "e">> >>

\* ramp_up.py:71-85; the grave accent is written "backtick"
api_indicators ==
    << <<"u", "s", "a", "g", "e">>,
       <<"e", "x", "a", "m", "p", "l", "e">>,
       <<"h", "o", "w", " ", "t", "o", " ", "u", "s", "e">>,
       <<"q", "u", "i", "c", "k", "s", "t", "a", "r", "t">>,
       <<"t", "u", "t", "o", "r", "i", "a", "l">>,
       <<"f", "r", "o", "m", " ", "t", "r", "a", "n", "s", "f", "o", "r", "m", "e", "r", "s">>,
       <<"i", "m", "p", "o", "r", "t">>,
       <<"m", "o", "d", "e", "l", ".">>,
       <<"p", "i", "p", "e", "l", "i", "n", "e">>,
       <<"backtick", "backtick", "backtick", "p", "y", "t", "h", "o", "n">>,
       <<"backtick", "backtick", "backtick", "p", "y">>,
       <<"a", "p", "i">>,
       <<"i", "n", "f", "e", "r", "e", "n", "c", "e">> >>

\* "example"
WordExample == <<"e", "x", "a", "m", "p", "l", "e">>

\* "tutorial"
WordTutorial == <<"t", "u", "t", "o", "r", "i", "a", "l">>

\* "notebook"
WordNotebook == <<"n", "o", "t", "e", "b", "o", "o", "k">>

\* "train"
WordTrain == <<"t", "r", "a", "i", "n">>

\* ".ipynb"
SuffixIpynb == <<".", "i", "p", "y", "n", "b">>

\* ".py"
SuffixPy == <<".", "p", "y">>

\* hf_info.get("files") when hf_info is a dict, else the empty list
FilesOf(hf_info) == IF hf_info = None THEN <<>> ELSE hf_info.files

\* ramp_up.py:92-98
has_examples(files) ==
    \E k \in 1..Len(files) :
        \/ Contains(WordExample, lower(files[k]))
        \/ Contains(WordTutorial, lower(files[k]))
        \/ Contains(WordNotebook, lower(files[k]))
        \/ endswith(files[k], SuffixIpynb)

Indicator(b) == IF b THEN 250 ELSE 0

calculate_ramp_up_score_no_cap(ctx) ==
    IF ~TruthyReadme(ctx.readme_content) THEN 100
    ELSE LET readme_lower == lower(readme_text(ctx.readme_content))
         IN 250
            + Indicator(any_in(install_indicators, readme_lower))
            + Indicator(any_in(training_indicators, readme_lower))
            + Indicator(any_in(api_indicators, readme_lower))
            + (IF has_examples(FilesOf(ctx.hf_info)) THEN 100 ELSE 0)

\* ramp_up.py:24-102, in thousandths
calculate_ramp_up_score(ctx) ==
    IF ~TruthyReadme(ctx.readme_content) THEN 100
    ELSE LET readme_lower == lower(readme_text(ctx.readme_content))
         IN Min(1000,
                250
                + Indicator(any_in(install_indicators, readme_lower))
                + Indicator(any_in(training_indicators, readme_lower))
                + Indicator(any_in(api_indicators, readme_lower))
                + (IF has_examples(FilesOf(ctx.hf_info)) THEN 100 ELSE 0))

----------------------------------------------------------------------------
(* Dataset-and-code evaluator: src/metrics/dataset_and_code.py *)

\* dataset_and_code.py:37-45
dataset_indicators ==
    << <<"d", "a", "t", "a", "s", "e", "t", ":">>,
       <<"t", "r", "a", "i", "n", "i", "n", "g", " ", "d", "a", "t", "a">>,
       <<"t", "r", "a", "i", "n", " ", "o", "n">>,
       <<"t", "r", "a", "i", "n", "e", "d", " ", "o", "n">>,
       <<"h", "u", "g", "g", "i", "n", "g", "f", "a", "c", "e", ".", "c", "o", "/", "d", "a", "t", "a", "s", "e", "t", "s", "/">>,
       <<"d", "a", "t", "a", "s", "e", "t", " ", "l", "i", "n", "k">>,
       <<"d", "a", "t", "a", " ", "s", "o", "u", "r", "c", "e">> >>

\* dataset_and_code.py:63-77
code_indicators ==
    << <<"t", "r", "a", "i", "n", "i", "n", "g", " ", "s", "c", "r", "i", "p", "t">>,
       <<"t", "r", "a", "i", "n", ".", "p", "y">>,
       <<"f", "i", "n", "e", "-", "t", "u", "n", "e">>,
       <<"f", "i", "n", "e", "t", "u", "n", "e">>,
       <<"e", "x", "a", "m", "p", "l", "e", " ", "c", "o", "d", "e">>,
       <<"t", "r", "a", "i", "n", "i", "n", "g", " ", "c", "o", "d", "e">>,
       <<"g", "i", "t", "h", "u", "b", ".", "c", "o", "m", "/">>,
       <<"c", "o", "l", "a", "b">>,
       <<"j", "u", "p", "y", "t", "e", "r">>,
       <<"n", "o", "t", "e", "b", "o", "o", "k">>,
       <<"s", "c", "r", "i", "p", "t">>,
       <<"e", "x", "a", "m", "p", "l", "e", ":">>,
       <<"t", "u", "t", "o", "r", "i", "a", "l">> >>

\* dataset_and_code.py:33-55
has_dataset_link(ctx) ==
    LET linked ==
            IF ctx.datasets # <<>> THEN TRUE
            ELSE IF TruthyReadme(ctx.readme_content)
            THEN any_in(dataset_indicators, lower(readme_text(ctx.readme_content)))
            ELSE FALSE
    IN IF ~linked /\ ctx.hf_info # None /\ ctx.hf_info.model_index THEN TRUE
       ELSE linked

\* dataset_and_code.py:85-91
script_files(files) ==
    \E k \in 1..Len(files) :
        \/ endswith(files[k], SuffixPy)
        \/ endswith(files[k], SuffixIpynb)
        \/ Contains(WordTrain, lower(files[k]))
        \/ Contains(WordExample, lower(files[k]))

\* dataset_and_code.py:57-92
has_example_code(ctx) ==
    LET linked ==
            IF ctx.code_repos # <<>> THEN TRUE
            ELSE IF TruthyReadme(ctx.readme_content)
            THEN any_in(code_indicators, lower(readme_text(ctx.readme_content)))
            ELSE FALSE
    IN IF ~linked /\ FilesOf(ctx.hf_info) # <<>>
       THEN script_files(FilesOf(ctx.hf_info))
       ELSE linked

calculate_dataset_code_score_either(ctx) ==
    IF has_dataset_link(ctx) \/ has_example_code(ctx) THEN 1000 ELSE 100

\* dataset_and_code.py:94-100, in thousandths
calculate_dataset_code_score(ctx) ==
    IF has_dataset_link(ctx) /\ has_example_code(ctx) THEN 1000
    ELSE IF has_dataset_link(ctx) \/ has_example_code(ctx) THEN 500
    ELSE 100

----------------------------------------------------------------------------
(* Performance-claims evaluator: src/metrics/performance_claims.py *)

\* performance_claims.py:37-42
negative_indicators ==
    << <<"n", "o", " ", "p", "e", "r", "f", "o", "r", "m", "a", "n", "c", "e">>,
       <<"n", "o", " ", "b", "e", "n", "c", "h", "m", "a", "r", "k">>,
       <<"n", "o", " ", "e", "v", "a", "l", "u", "a", "t", "i", "o", "n">>,
       <<"n", "o", " ", "r", "e", "s", "u", "l", "t", "s">> >>

\* performance_claims.py:49-61
benchmark_patterns ==
    << <<"g", "l", "u", "e">>,
       <<"s", "q", "u", "a", "d">>,
       <<"m", "m", "l", "u">>,
       <<"a", "c", "c", "u", "r", "a", "c", "y">>,
       <<"f", "1">>,
       <<"b", "l", "e", "u">>,
       <<"r", "o", "u", "g", "e">>,
       <<"s", "c", "o", "r", "e">>,
       <<"b", "e", "n", "c", "h", "m", "a", "r", "k">>,
       <<"%">>,
       <<"p", "e", "r", "c", "e", "n", "t">> >>

\* performance_claims.py:65-74
paper_indicators ==
    << <<"a", "r", "x", "i", "v">>,
       <<"p", "a", "p", "e", "r">>,
       <<"c", "i", "t", "a", "t", "i", "o", "n">>,
       <<"h", "t", "t", "p", "s", ":", "/", "/", "a", "r", "x", "i", "v", ".", "o", "r", "g">>,
       <<"m", "e", "t", "h", "o", "d", "o", "l", "o", "g", "y">>,
       <<"e", "x", "p", "e", "r", "i", "m", "e", "n", "t">>,
       <<"e", "v", "a", "l", "u", "a", "t", "i", "o", "n", " ", "p", "r", "o", "t", "o", "c", "o", "l">>,
       <<"s", "e", "e", " ", "p", "a", "p", "e", "r">> >>

\* performance_claims.py:78-89
reproducible_indicators ==
    << <<"r", "e", "p", "r", "o", "d", "u", "c", "e">>,
       <<"r", "e", "p", "r", "o", "d", "u", "c", "i", "b", "l", "e">>,
       <<"s", "c", "r", "i", "p", "t">>,
       <<"c", "o", "d", "e">>,
       <<"g", "i", "t", "h", "u", "b", ".", "c", "o", "m", "/">>,
       <<"c", "o", "l", "a", "b">>,
       <<"n", "o", "t", "e", "b", "o", "o", "k">>,
       <<"e", "v", "a", "l", ".", "p", "y">>,
       <<"e", "v", "a", "l", "u", "a", "t", "i", "o", "n", ".", "p", "y">>,
       <<"s", "t", "e", "p", "s", " ", "t", "o", " ", "r", "e", "p", "r", "o", "d", "u", "c", "e">> >>

\* performance_claims.py:95-95
detailed_indicators ==
    << <<"|">>,
       <<"t", "a", "b", "l", "e">>,
       <<"m", "u", "l", "t", "i", "p", "l", "e">>,
       <<"v", "a", "r", "i", "o", "u", "s">>,
       <<"s", "e", "v", "e", "r", "a", "l">> >>

\* performance_claims.py:24-119, in thousandths
calculate_performance_score(ctx) ==
    IF ~TruthyReadme(ctx.readme_content) THEN 0
    ELSE LET readme_lower == lower(readme_text(ctx.readme_content))
             has_benchmarks == any_in(benchmark_patterns, readme_lower)
             has_paper_ref == any_in(paper_indicators, readme_lower)
             has_reproducible == any_in(reproducible_indicators, readme_lower)
             has_detailed_results == any_in(detailed_indicators, readme_lower)
         IN IF any_in(negative_indicators, readme_lower) THEN 50
            ELSE IF has_benchmarks /\ has_paper_ref /\ has_detailed_results THEN 850
            ELSE IF has_benchmarks /\ has_paper_ref THEN 750
            ELSE IF has_reproducible /\ has_benchmarks THEN 1000
            ELSE IF has_benchmarks THEN 500
            ELSE 100

----------------------------------------------------------------------------
(* Dataset-quality evaluator: src/metrics/dataset_quality.py *)

\* dataset_quality.py:101-115
size_indicators ==
    << <<"s", "i", "z", "e">>,
       <<"s", "a", "m", "p", "l", "e", "s">>,
       <<"e", "x", "a", "m", "p", "l", "e", "s">>,
       <<"i", "n", "s", "t", "a", "n", "c", "e", "s">>,
       <<"r", "e", "c", "o", "r", "d", "s">>,
       <<"e", "n", "t", "r", "i", "e", "s">>,
       <<"r", "o", "w", "s">>,
       <<"d", "a", "t", "a", "p", "o", "i", "n", "t", "s">>,
       <<"m", "b">>,
       <<"g", "b">>,
       <<"k", "b">>,
       <<"m", "i", "l", "l", "i", "o", "n">>,
       <<"t", "h", "o", "u", "s", "a", "n", "d">> >>

\* dataset_quality.py:130-143
benchmark_indicators ==
    << <<"b", "e", "n", "c", "h", "m", "a", "r", "k">>,
       <<"e", "v", "a", "l", "u", "a", "t", "i", "o", "n">>,
       <<"b", "a", "s", "e", "l", "i", "n", "e">>,
       <<"p", "e", "r", "f", "o", "r", "m", "a", "n", "c", "e">>,
       <<"a", "c", "c", "u", "r", "a", "c", "y">>,
       <<"f", "1">>,
       <<"b", "l", "e", "u">>,
       <<"r", "o", "u", "g", "e">>,
       <<"g", "l", "u", "e">>,
       <<"s", "q", "u", "a", "d">>,
       <<"s", "u", "p", "e", "r", "g", "l", "u", "e">>,
       <<"r", "e", "s", "u", "l", "t", "s">> >>

\* dataset_quality.py:92-94
description_words ==
    << <<"d", "e", "s", "c", "r", "i", "p", "t", "i", "o", "n">>,
       <<"o", "v", "e", "r", "v", "i", "e", "w">>,
       <<"d", "a", "t", "a", "s", "e", "t">> >>

\* "license"
WordLicense == <<"l", "i", "c", "e", "n", "s", "e">>

\* "SQuAD dataset, 100k examples"
DatasetCard ==
    << "S", "Q", "u", "A", "D", " ", "d", "a", "t", "a", "s", "e", "t",
       ",", " ", "1", "0", "0", "k", " ", "e", "x", "a", "m", "p", "l",
       "e", "s" >>

\* What hf_api.get_readme_content returns for a linked dataset
DatasetReadmes == {None, Str(DatasetCard)}

\* dataset_quality.py:84-147 with dataset_info None, in thousandths
analyze_dataset_content(readme_content) ==
    LET readme_lower == lower(readme_content)
    IN Indicator(any_in(description_words, readme_lower)
                 \/ Len(readme_content) > 300)
       + Indicator(any_in(size_indicators, readme_lower))
       + Indicator(Contains(WordLicense, readme_lower))
       + Indicator(any_in(benchmark_indicators, readme_lower))

\* dataset_quality.py:66-78 with get_dataset_info returning None
analyze_hf_dataset_quality(dataset_readme) ==
    IF ~TruthyStr(dataset_readme) THEN 0
    ELSE analyze_dataset_content(dataset_readme.chars)

\* dataset_quality.py:38-42, 58-62
readme_fallback(ctx) ==
    IF TruthyReadme(ctx.readme_content)
    THEN analyze_dataset_content(readme_text(ctx.readme_content))
    ELSE 300

\* dataset_quality.py:29-64, in thousandths; every linked dataset on the hub
\* has the README dataset_readme
calculate_dataset_quality_score(ctx, dataset_readme) ==
    IF ctx.datasets = <<>> THEN readme_fallback(ctx)
    ELSE LET on_hub == SelectSeq(ctx.datasets,
                                 LAMBDA d : d.platform = "huggingface")
         IN IF on_hub = <<>> THEN readme_fallback(ctx)
            ELSE (Len(on_hub) * analyze_hf_dataset_quality(dataset_readme))
                     \div Len(on_hub)

----------------------------------------------------------------------------
(* Bus-factor evaluator: src/metrics/bus_factor.py *)

\* bus_factor.py:25, 27: the thresholds the default configuration gives
min_contributors == 3

single_contributor_penalty == 500

\* bus_factor.py:72-104, in thousandths
analyze_hf_engagement(hf_info) ==
    LET by_downloads ==
            IF hf_info.downloads > 10000 THEN 400
            ELSE IF hf_info.downloads > 1000 THEN 300
            ELSE IF hf_info.downloads > 100 THEN 200
            ELSE IF hf_info.downloads > 10 THEN 100
            ELSE 0
        by_likes ==
            IF hf_info.likes > 100 THEN 300
            ELSE IF hf_info.likes > 50 THEN 200
            ELSE IF hf_info.likes > 10 THEN 100
            ELSE IF hf_info.likes > 0 THEN 50
            ELSE 0
    IN Min(800, by_downloads + by_likes
                + (IF hf_info.last_modified THEN 100 ELSE 0))

\* What the loop over context.code_repos (bus_factor.py:46-63, the run
\* GitSpec follows) comes to: no repository could be cloned, the first
\* clone shows n unique authors, or analyze_repository raised
GitAnalyses ==
    { [kind |-> "no clone"], [kind |-> "raise"] } \cup
    { [kind |-> "authors", unique_authors |-> n] : n \in 0..5 }

\* bus_factor.py:54-62
git_score_for(unique_authors) ==
    IF unique_authors >= min_contributors THEN 800
    ELSE IF unique_authors = 2 THEN 600
    ELSE IF unique_authors = 1 THEN single_contributor_penalty
    ELSE 100

\* bus_factor.py:22-69, in thousandths; git.kind is not "raise"
calculate_bus_factor_score(ctx, git) ==
    LET weight_git == IF ctx.hf_info # None THEN 4 ELSE 10
        from_hf == IF ctx.hf_info # None
                   THEN (analyze_hf_engagement(ctx.hf_info) * 6) \div 10
                   ELSE 0
        git_score == IF ctx.code_repos # <<>> /\ git.kind = "authors"
                     THEN git_score_for(git.unique_authors)
                     ELSE 0
    IN Min(1000, from_hf + (git_score * weight_git) \div 10)

----------------------------------------------------------------------------
(* Code-quality evaluator: src/metrics/code_quality.py *)

\* What subprocess.run of a linter does: it exits with a return code and a
\* number of counted output lines, it is not installed or times out
\* (FileNotFoundError, TimeoutExpired), or it raises another Exception
LinterExit(returncode, lines) ==
    [kind |-> "exit", returncode |-> returncode, lines |-> lines]

LinterUnavailable == [kind |-> "unavailable"]

LinterError == [kind |-> "error"]

\* A cloned working tree, by what _analyze_code_quality_by_spec looks at:
\* whether a flake8 and a mypy configuration file exists, what running each
\* linter does, the number of *.py files, how many of the first 20 do not
\* compile, and whether a tests directory and a CI configuration exist
RepoTreeOf(flake8_config, flake8, mypy_config, mypy, python_files,
           syntax_errors, has_tests, has_ci) ==
    [flake8_config |-> flake8_config, flake8 |-> flake8,
     mypy_config |-> mypy_config, mypy |-> mypy,
     python_files |-> python_files, syntax_errors |-> syntax_errors,
     has_tests |-> has_tests, has_ci |-> has_ci]

\* No linter configuration, every file compiles, tests and CI
TreeClean ==
    RepoTreeOf(FALSE, LinterUnavailable, FALSE, LinterUnavailable,
               10, 0, TRUE, TRUE)

\* No linter configuration, two files with a SyntaxError
TreeSyntaxErrors ==
    RepoTreeOf(FALSE, LinterUnavailable, FALSE, LinterUnavailable,
               30, 2, FALSE, FALSE)

\* flake8 reports 25 lines, a tests directory
TreeLinted ==
    RepoTreeOf(TRUE, LinterExit(1, 25), FALSE, LinterUnavailable,
               30, 0, TRUE, FALSE)

\* flake8 reports 60 lines and mypy 10 errors, CI
TreeManyErrors ==
    RepoTreeOf(TRUE, LinterExit(1, 60), TRUE, LinterExit(1, 10),
               30, 0, FALSE, TRUE)

\* Both configured, neither linter installed, tests and CI
TreeNoLinters ==
    RepoTreeOf(TRUE, LinterUnavailable, TRUE, LinterUnavailable,
               40, 0, TRUE, TRUE)

\* flake8 clean, mypy raises
TreeLinterRaises ==
    RepoTreeOf(TRUE, LinterExit(0, 0), TRUE, LinterError, 40, 0, FALSE, FALSE)

\* Both linters clean, a tests directory
TreeLintClean ==
    RepoTreeOf(TRUE, LinterExit(0, 0), TRUE, LinterExit(0, 0),
               40, 0, TRUE, FALSE)

RepoTrees ==
    { TreeClean, TreeSyntaxErrors, TreeLinted, TreeManyErrors, TreeNoLinters,
      TreeLinterRaises, TreeLintClean }

\* code_quality.py:69-159
total_errors(tree) ==
    LET by_flake8 ==
            IF ~tree.flake8_config THEN 0
            ELSE IF tree.flake8.kind = "unavailable"
            THEN tree.python_files \div 5
            ELSE IF tree.flake8.returncode = 0 THEN 0
            ELSE tree.flake8.lines
        by_mypy ==
            IF ~tree.mypy_config THEN 0
            ELSE IF tree.mypy.kind = "unavailable"
            THEN tree.python_files \div 8
            ELSE IF tree.mypy.returncode # 0 THEN tree.mypy.lines
            ELSE 0
        by_compile ==
            IF ~tree.flake8_config /\ ~tree.mypy_config
            THEN tree.syntax_errors
            ELSE 0
        raised ==
            \/ tree.flake8_config /\ tree.flake8.kind = "error"
            \/ tree.mypy_config /\ tree.mypy.kind = "error"
    IN IF raised THEN Max(1, tree.python_files \div 4)
       ELSE by_flake8 + by_mypy + by_compile

\* code_quality.py:61-184, in thousandths
analyze_code_quality_by_spec(tree) ==
    LET base_score == Max(0, Min(1000, 1000 - (total_errors(tree) * 1000) \div 50))
    IN Min(1000, base_score + (IF tree.has_tests THEN 100 ELSE 0)
                            + (IF tree.has_ci THEN 100 ELSE 0))

\* What clone_repo returns for each of n linked repositories, were it
\* called: None or the path of a working tree
Clones(n) ==
    IF n <= 1 THEN [1..n -> {None} \cup RepoTrees]
    ELSE [1..n -> {None, TreeLinted, TreeSyntaxErrors}]

\* What the evaluator meets outside the context: the clones, or an
\* exception out of GitInspector
CodeAnalyses ==
    { [kind |-> "raise"] } \cup
    { [kind |-> "clones", clones |-> c] : c \in UNION {Clones(n) : n \in 0..3} }

\* code_quality.py:29-59, in thousandths: only the first repository is tried
calculate_code_quality_score_first_only(ctx, clones) ==
    IF ctx.code_repos = <<>> THEN 400
    ELSE IF ctx.code_repos[1].platform = "github" /\ clones[1] # None
    THEN analyze_code_quality_by_spec(clones[1])
    ELSE 400

\* code_quality.py:29-59, in thousandths
calculate_code_quality_score(ctx, clones) ==
    IF ctx.code_repos = <<>> THEN 400
    ELSE LET analysed ==
                 { i \in 1..Min(2, Len(ctx.code_repos)) :
                     /\ ctx.code_repos[i].platform = "github"
                     /\ clones[i] # None
                     /\ \A j \in 1..(i - 1) :
                           ~(ctx.code_repos[j].platform = "github" /\ clones[j] # None) }
         IN IF analysed = {} THEN 400
            ELSE analyze_code_quality_by_spec(clones[CHOOSE i \in analysed : TRUE])

----------------------------------------------------------------------------
(* Size evaluator: src/metrics/size_score.py *)

\* What _calculate_size_scores returns (size_score.py:28-49): the four device
\* scores of the size it estimated
SizeScores == { SizeScoreOf(500, 700, 900, 1000), SizeScoreOf(1000, 1000, 1000, 1000) }

\* pydantic accepts the value for a field declared float
IsFloat(v) == v.type = "float"

\* SizeScoreMetric.compute (size_score.py:15-26): MetricResult(score=
\* size_score, ...) with size_score a SizeScore object
size_score_compute(size_score, ms) ==
    IF IsFloat(size_score) /\ ms >= 0
    THEN Return(MetricResultOf(size_score, ms), ms)
    ELSE Raise(ms)

----------------------------------------------------------------------------
(* One evaluator's compute(context, config) run on its own, with the        *)
(* default configuration                                                    *)

\* What measure_time() reports, in milliseconds
ElapsedSamples == {0, MaxElapsed}

EvalInit ==
    /\ ev_pc = "ready"
    /\ ev_context \in EvalContexts
    /\ ev_metric = "none"
    /\ ev_outcome = None
    /\ ev_input = None

\* license_score.py:17-22
ComputeLicense(ms) ==
    /\ ev_pc = "ready"
    /\ ev_metric' = "license"
    /\ ev_outcome' =
          compute("license",
                  Return(calculate_license_score(ev_context), ms),
                  get_default_config)
    /\ ev_pc' = "done"
    /\ ev_input' = None
    /\ UNCHANGED ev_context
    /\ UNCHANGED not_ev_vars

\* ramp_up.py:15-22
ComputeRampUp(ms) ==
    /\ ev_pc = "ready"
    /\ ev_metric' = "ramp_up_time"
    /\ ev_outcome' =
          compute("ramp_up_time",
                  Return(calculate_ramp_up_score(ev_context), ms),
                  get_default_config)
    /\ ev_pc' = "done"
    /\ ev_input' = None
    /\ UNCHANGED ev_context
    /\ UNCHANGED not_ev_vars

\* dataset_and_code.py:15-22
ComputeDatasetAndCode(ms) ==
    /\ ev_pc = "ready"
    /\ ev_metric' = "dataset_and_code_score"
    /\ ev_outcome' =
          compute("dataset_and_code_score",
                  Return(calculate_dataset_code_score(ev_context), ms),
                  get_default_config)
    /\ ev_pc' = "done"
    /\ ev_input' = None
    /\ UNCHANGED ev_context
    /\ UNCHANGED not_ev_vars

\* performance_claims.py:15-22
ComputePerformanceClaims(ms) ==
    /\ ev_pc = "ready"
    /\ ev_metric' = "performance_claims"
    /\ ev_outcome' =
          compute("performance_claims",
                  Return(calculate_performance_score(ev_context), ms),
                  get_default_config)
    /\ ev_pc' = "done"
    /\ ev_input' = None
    /\ UNCHANGED ev_context
    /\ UNCHANGED not_ev_vars

\* dataset_quality.py:20-27
ComputeDatasetQuality(ms, dataset_readme) ==
    /\ ev_pc = "ready"
    /\ ev_context.datasets = <<>> => dataset_readme = None
    /\ ev_metric' = "dataset_quality"
    /\ ev_outcome' =
          compute("dataset_quality",
                  Return(calculate_dataset_quality_score(ev_context, dataset_readme), ms),
                  get_default_config)
    /\ ev_pc' = "done"
    /\ ev_input' = dataset_readme
    /\ UNCHANGED ev_context
    /\ UNCHANGED not_ev_vars

\* bus_factor.py:15-20
ComputeBusFactor(ms, git) ==
    /\ ev_pc = "ready"
    /\ ev_context.code_repos = <<>> => git.kind = "no clone"
    /\ ev_metric' = "bus_factor"
    /\ ev_outcome' =
          IF git.kind = "raise" THEN Raise(ms)
          ELSE compute("bus_factor",
                       Return(calculate_bus_factor_score(ev_context, git), ms),
                       get_default_config)
    /\ ev_pc' = "done"
    /\ ev_input' = git
    /\ UNCHANGED ev_context
    /\ UNCHANGED not_ev_vars

\* code_quality.py:20-27
ComputeCodeQuality(ms, analysis) ==
    /\ ev_pc = "ready"
    /\ ev_context.code_repos = <<>> => analysis.kind = "clones"
    /\ analysis.kind = "clones" =>
          Len(analysis.clones) = Len(ev_context.code_repos)
    /\ ev_metric' = "code_quality"
    /\ ev_outcome' =
          IF analysis.kind = "raise" THEN Raise(ms)
          ELSE compute("code_quality",
                       Return(calculate_code_quality_score(ev_context,
                                                           analysis.clones), ms),
                       get_default_config)
    /\ ev_pc' = "done"
    /\ ev_input' = analysis
    /\ UNCHANGED ev_context
    /\ UNCHANGED not_ev_vars

\* size_score.py:15-26
ComputeSizeScore(ms, size_score) ==
    /\ ev_pc = "ready"
    /\ ev_metric' = "size_score"
    /\ ev_outcome' =
          size_score_compute(size_score, ms)
    /\ ev_pc' = "done"
    /\ ev_input' = size_score
    /\ UNCHANGED ev_context
    /\ UNCHANGED not_ev_vars

EvalNext ==
    \/ \E ms \in ElapsedSamples : ComputeLicense(ms)
    \/ \E ms \in ElapsedSamples : ComputeRampUp(ms)
    \/ \E ms \in ElapsedSamples : ComputeDatasetAndCode(ms)
    \/ \E ms \in ElapsedSamples : ComputePerformanceClaims(ms)
    \/ \E ms \in ElapsedSamples, d \in DatasetReadmes : ComputeDatasetQuality(ms, d)
    \/ \E ms \in ElapsedSamples, g \in GitAnalyses : ComputeBusFactor(ms, g)
    \/ \E ms \in ElapsedSamples, a \in CodeAnalyses : ComputeCodeQuality(ms, a)
    \/ \E ms \in ElapsedSamples, s \in SizeScores : ComputeSizeScore(ms, s)

EvalStart ==
    ScorerInit /\ CliIdle /\ UrlIdle /\ GitIdle /\ HfIdle /\ EvalInit /\ InsIdle

EvalSpec == EvalStart /\ [][EvalNext]_vars

----------------------------------------------------------------------------
(* Properties of the evaluators *)

\* No enrichment evidence and no linked resources
NoEvidence(ctx) ==
    /\ ctx.hf_info = None
    /\ ctx.readme_content = None
    /\ ctx.config_data = None
    /\ ctx.datasets = <<>>
    /\ ctx.code_repos = <<>>

\* C17: for a context with no enrichment evidence and no linked resources the
\* compute of each of the eight evaluators, the size evaluator included,
\* returns a result and does not raise.
C17_NoEvidenceNeverRaises ==
    (ev_pc = "done" /\ NoEvidence(ev_context)) => ev_outcome.kind = "return"

\* The score of the MetricResult the evaluator returned
ReturnedScore == ev_outcome.value.score

\* The identifier a license tag carries after "license:"
IdOf(tag) == SubSeq(tag, Len(LicenseTagPrefix) + 1, Len(tag))

\* The license token of a context: the identifier of its first license tag
\* when that is not empty, else the license section of its README
LicenseToken(ctx) ==
    IF TruthyStr(license_from_tags(ctx.hf_info))
    THEN license_from_tags(ctx.hf_info)
    ELSE parse_license_from_readme(ctx.readme_content)

\* The sample tokens by the license they name
PermissiveTokens == {IdOf(TagLicenseMit), SectionMit, SectionApache, SectionBsd}

LgplTokens == {SectionLgpl}

GplTokens == {IdOf(TagLicenseGpl), SectionGpl, SectionAgpl, SectionGplLimited}

\* C18: the license score is 0.3 when neither a license tag nor the README
\* license section gives a token; otherwise 1.0 for a permissive license
\* (MIT, Apache, BSD), 0.8 for LGPL, 0.7 for GPL/AGPL and 0.5 for any other
\* token, the tag taking precedence over the README.
C18_LicenseScoreTable ==
    (ev_pc = "done" /\ ev_metric = "license") =>
        /\ ev_outcome.kind = "return"
        /\ ReturnedScore =
              IF ~TruthyStr(LicenseToken(ev_context)) THEN 300
              ELSE IF LicenseToken(ev_context).chars \in PermissiveTokens THEN 1000
              ELSE IF LicenseToken(ev_context).chars \in LgplTokens THEN 800
              ELSE IF LicenseToken(ev_context).chars \in GplTokens THEN 700
              ELSE 500

\* The README checks of the ramp-up score that a context satisfies
RampUpChecks(ctx) ==
    LET text == lower(readme_text(ctx.readme_content))
    IN {"README present"} \cup
       (IF any_in(install_indicators, text) THEN {"install"} ELSE {}) \cup
       (IF any_in(training_indicators, text) THEN {"training"} ELSE {}) \cup
       (IF any_in(api_indicators, text) THEN {"usage"} ELSE {})

\* The file listing holds an example, tutorial or notebook file
ExampleFileListed(ctx) ==
    /\ ctx.hf_info # None
    /\ \E k \in 1..Len(ctx.hf_info.files) :
          \/ \E w \in {WordExample, WordTutorial, WordNotebook} :
                Contains(w, lower(ctx.hf_info.files[k]))
          \/ endswith(ctx.hf_info.files[k], SuffixIpynb)

\* C19: the ramp-up score is exactly 0.1 without a README, whatever the file
\* listing; with a README it is 0.25 times the number of satisfied checks
\* among README present, install, training/evaluation and usage/API keywords,
\* plus 0.1 if the file listing holds an example, tutorial or notebook file,
\* capped at 1.0.
C19_RampUpScore ==
    (ev_pc = "done" /\ ev_metric = "ramp_up_time") =>
        /\ ev_outcome.kind = "return"
        /\ ReturnedScore =
              IF ~TruthyReadme(ev_context.readme_content) THEN 100
              ELSE Min(1000,
                       250 * Cardinality(RampUpChecks(ev_context))
                       + (IF ExampleFileListed(ev_context) THEN 100 ELSE 0))

\* The ramp-up evaluator has run on a README that satisfies all four checks
\* with a notebook in the file listing: the cap applies
C19_Witness ==
    /\ ev_pc = "done"
    /\ ev_metric = "ramp_up_time"
    /\ TruthyReadme(ev_context.readme_content)
    /\ Cardinality(RampUpChecks(ev_context)) = 4
    /\ ExampleFileListed(ev_context)
    /\ ReturnedScore = 1000

\* A dataset is indicated: linked, named in the README, or in model_index
DatasetIndication(ctx) ==
    \/ ctx.datasets # <<>>
    \/ /\ TruthyReadme(ctx.readme_content)
       /\ any_in(dataset_indicators, lower(readme_text(ctx.readme_content)))
    \/ ctx.hf_info # None /\ ctx.hf_info.model_index

\* Code is indicated: linked, named in the README, or a script in the files
CodeIndication(ctx) ==
    \/ ctx.code_repos # <<>>
    \/ /\ TruthyReadme(ctx.readme_content)
       /\ any_in(code_indicators, lower(readme_text(ctx.readme_content)))
    \/ ctx.hf_info # None /\ script_files(ctx.hf_info.files)

\* One linked dataset, no code repository, no README, no file listing
OnlyADataset(ctx) ==
    /\ Len(ctx.datasets) = 1
    /\ ctx.code_repos = <<>>
    /\ ctx.readme_content = None
    /\ ctx.hf_info = None

\* C20: the dataset-and-code score is 1.0 with both a dataset indication and
\* a code indication, 0.5 with exactly one and 0.1 with neither; a context
\* with one linked dataset, no code repository, no README and no file listing
\* scores exactly 0.5.
C20_DatasetAndCodeScore ==
    (ev_pc = "done" /\ ev_metric = "dataset_and_code_score") =>
        /\ ev_outcome.kind = "return"
        /\ ReturnedScore =
              IF DatasetIndication(ev_context) /\ CodeIndication(ev_context)
              THEN 1000
              ELSE IF DatasetIndication(ev_context) \/ CodeIndication(ev_context)
              THEN 500
              ELSE 100
        /\ OnlyADataset(ev_context) => ReturnedScore = 500

\* The dataset-and-code evaluator has run on a context with one linked
\* dataset and nothing else
C20_Witness ==
    /\ ev_pc = "done"
    /\ ev_metric = "dataset_and_code_score"
    /\ OnlyADataset(ev_context)
    /\ ReturnedScore = 500

\* ---------------------------------------------------------------------
\* The size evaluator (src/src/metrics/size_score.py).  Sizes and limits are
\* integer thousandths of a gigabyte; device scores are thousandths.
\* ---------------------------------------------------------------------

\* a/b <= c/d for a, c >= 0 and b, d > 0, by the Euclidean expansion of the
\* two fractions, so that no product leaves the machine integers
RECURSIVE LeqFrac(_, _, _, _)
LeqFrac(a, b, c, d) ==
    IF a \div b # c \div d THEN a \div b < c \div d
    ELSE IF a % b = 0 THEN TRUE
    ELSE IF c % d = 0 THEN FALSE
    ELSE LeqFrac(d, c % d, b, a % b)

RECURSIVE GCD(_, _)
GCD(a, b) == IF b = 0 THEN a ELSE GCD(b, a % b)

Pow5(y) == y * y * y * y * y

\* floor(scale * (n/d)^(1/5)) among the roots whose fifth power is a
\* machine integer, for a ratio n/d below (73/scale)^5
FifthRootFloor(n, d, scale) ==
    CHOOSE y \in 0..72 :
        /\ LeqFrac(Pow5(y), Pow5(scale), n, d)
        /\ ~LeqFrac(Pow5(y + 1), Pow5(scale), n, d)

\* round(num / den, 3) in thousandths for 0 <= num <= den, by long division
Round3(num, den) ==
    LET d1 == (10 * num) \div den
        r1 == (10 * num) % den
        d2 == (10 * r1) \div den
        r2 == (10 * r1) % den
        d3 == (10 * r2) \div den
        r3 == (10 * r2) % den
    IN 100 * d1 + 10 * d2 + d3 + (IF 2 * r3 >= den THEN 1 ELSE 0)

\* size_score.py:50-65: round(1.0 / (1.0 + math.pow(ratio, softness)), 3)
\* with softness = 1.2, so math.pow(ratio, 1.2) = ratio * ratio^(1/5), as
\* the interval [lo, hi] of thousandths that holds the value: with
\* ratio = n/d and y/scale <= ratio^(1/5) < (y+1)/scale,
\* ratio * y/scale <= ratio^1.2 < ratio * (y+1)/scale; the interval is a
\* single point when the fifth root is a multiple of 1/scale
calculate_device_score(model_size_gb, limit_gb) ==
    IF limit_gb <= 0 THEN [lo |-> 0, hi |-> 0]
    ELSE LET scale == 32
             g == GCD(model_size_gb, limit_gb)
             n == model_size_gb \div g
             d == limit_gb \div g
             y == FifthRootFloor(n, d, scale)
             exact == LeqFrac(n, d, Pow5(y), Pow5(scale))
             y_hi == IF exact THEN y ELSE y + 1
         IN [lo |-> Round3(d * scale, d * scale + n * y_hi),
             hi |-> Round3(d * scale, d * scale + n * y)]

\* ---------------------------------------------------------------------
\* Numbers in text (src/src/utils.py:21-75, size_score.py:135-170)
\* ---------------------------------------------------------------------

Digits == <<"0", "1", "2", "3", "4", "5", "6", "7", "8", "9">>

IsDigit(c) == \E k \in 1..10 : Digits[k] = c

DigitValue(c) == (CHOOSE k \in 1..10 : Digits[k] = c) - 1

\* \s
Whitespace == {" ", "\n", "\t"}

\* \w on lower-case text
IsWordChar(c) ==
    \/ \E k \in 1..Len(LowerCase) : c \in {LowerCase[k], UpperCase[k]}
    \/ IsDigit(c)
    \/ c = "_"

\* The character at position i, or "" past the end of the text
At(s, i) == IF i >= 1 /\ i <= Len(s) THEN s[i] ELSE ""

\* The literal lit stands at position i of s
LitAt(s, i, lit) ==
    /\ i + Len(lit) - 1 <= Len(s)
    /\ SubSeq(s, i, i + Len(lit) - 1) = lit

\* \b between positions i - 1 and i
WordBoundaryAt(s, i) == IsWordChar(At(s, i - 1)) # IsWordChar(At(s, i))

\* (?:-|_|$|\s) at position i
DelimiterAt(s, i) == i > Len(s) \/ At(s, i) \in {"-", "_"} \cup Whitespace

\* The last position of the run of digits that starts at position i
RECURSIVE DigitsEnd(_, _)
DigitsEnd(s, i) == IF IsDigit(At(s, i + 1)) THEN DigitsEnd(s, i + 1) ELSE i

\* The last position of \d+(?:\.\d+)? matched from the digit at position i
NumberEnd(s, i) ==
    LET j == DigitsEnd(s, i)
    IN IF At(s, j + 1) = "." /\ IsDigit(At(s, j + 2))
       THEN DigitsEnd(s, j + 2) ELSE j

\* The position after the whitespace that starts at position i (\s*)
RECURSIVE SkipSpace(_, _)
SkipSpace(s, i) == IF At(s, i) \in Whitespace THEN SkipSpace(s, i + 1) ELSE i

\* int() of the digits s[i..j]
RECURSIVE IntValue(_, _, _)
IntValue(s, i, j) ==
    IF j < i THEN 0 ELSE 10 * IntValue(s, i, j - 1) + DigitValue(s[j])

\* float() of the number that starts at position i, in thousandths (the
\* fourth and later decimals are dropped)
FloatValue(s, i) ==
    LET j == DigitsEnd(s, i)
        k == NumberEnd(s, i)
        f(n) == IF j + 1 + n <= k THEN DigitValue(s[j + 1 + n]) ELSE 0
    IN 1000 * IntValue(s, i, j) + 100 * f(1) + 10 * f(2) + f(3)

\* An Optional[float] that is not None, in thousandths
Float(v) == [type |-> "float", value |-> v]

\* The unit that ([mgt]?b)\b captures at position i, or <<>>
UnitWithB(s, i) ==
    IF At(s, i) \in {"m", "g", "t"} /\ At(s, i + 1) = "b"
       /\ WordBoundaryAt(s, i + 2)
    THEN <<At(s, i), "b">>
    ELSE IF At(s, i) = "b" /\ WordBoundaryAt(s, i + 1) THEN <<"b">>
    ELSE <<>>

\* The unit that ([mgt])\b captures at position i, or <<>>
UnitLetter(s, i) ==
    IF At(s, i) \in {"m", "g", "t"} /\ WordBoundaryAt(s, i + 1)
    THEN <<At(s, i)>> ELSE <<>>

\* The starts of the matches of (\d+(?:\.\d+)?)\s*<tail>, tail(s, i) telling
\* whether the rest of the pattern matches at position i
MatchStarts(s, tail(_, _)) ==
    {i \in 1..Len(s) : IsDigit(s[i]) /\ tail(s, SkipSpace(s, NumberEnd(s, i) + 1))}

\* The start of the first match
FirstOf(starts) == CHOOSE i \in starts : \A k \in starts : i <= k

WordBillion == <<"b", "i", "l", "l", "i", "o", "n">>

WordMillion == <<"m", "i", "l", "l", "i", "o", "n">>

\* utils.py:51: text_lower[max(0, match.start() - 20):match.end() + 20]
MatchContext(s, first, last) ==
    SubSeq(s, IF first > 20 THEN first - 20 ELSE 1, Min(Len(s), last + 20))

\* utils.py:59-71: the size in gigabytes of a value with a unit, or None
\* when no branch takes the unit
ConvertToGb(size_value, unit) ==
    IF unit = <<"b">> THEN Float(size_value * 2)
    ELSE IF unit = <<"m">> THEN Float((size_value * 2) \div 1000)
    ELSE IF unit = <<"g", "b">> THEN Float(size_value)
    ELSE IF unit = <<"m", "b">> THEN Float(size_value \div 1024)
    ELSE IF unit = <<"t", "b">> THEN Float(size_value * 1024)
    ELSE None

\* utils.py:21-75
extract_model_size_from_text(text) ==
    LET s == lower(text)
        with_b == MatchStarts(s, LAMBDA t, i : UnitWithB(t, i) # <<>>)
        billion == MatchStarts(s, LAMBDA t, i : LitAt(t, i, WordBillion))
        million == MatchStarts(s, LAMBDA t, i : LitAt(t, i, WordMillion))
        \* of the matches of the fourth pattern only unit M returns
        letter_m == MatchStarts(s, LAMBDA t, i : UnitLetter(t, i) = <<"m">>)
        UnitAfter(i) == SkipSpace(s, NumberEnd(s, i) + 1)
    IN IF text = <<>> THEN None
       ELSE IF with_b # {}
       THEN ConvertToGb(FloatValue(s, FirstOf(with_b)),
                        UnitWithB(s, UnitAfter(FirstOf(with_b))))
       ELSE IF billion # {}
       THEN Float(FloatValue(s, FirstOf(billion)) * 2)
       ELSE IF million # {}
       THEN LET i == FirstOf(million)
                ctx == MatchContext(s, i, UnitAfter(i) + Len(WordMillion) - 1)
            IN ConvertToGb(FloatValue(s, i),
                           IF Contains(WordBillion, ctx) THEN <<"b">> ELSE <<"m">>)
       ELSE IF letter_m # {}
       THEN ConvertToGb(FloatValue(s, FirstOf(letter_m)), <<"m">>)
       ELSE None

\* ---------------------------------------------------------------------
\* SizeScoreMetric._estimate_model_size (size_score.py:67-210)
\* ---------------------------------------------------------------------

\* size_score.py:122-127, in insertion order, sizes in thousandths
model_size_mappings ==
    << [keywords |-> << <<"b", "e", "r", "t", "-", "b", "a", "s", "e", "-", "u", "n", "c", "a", "s", "e", "d">> >>,
        size |-> 440],
       [keywords |-> << <<"w", "h", "i", "s", "p", "e", "r", "-", "t", "i", "n", "y">> >>,
        size |-> 75],
       [keywords |-> << <<"a", "u", "d", "i", "e", "n", "c", "e", "-", "c", "l", "a", "s", "s", "i", "f", "i", "e", "r">> >>,
        size |-> 100],
       [keywords |-> << <<"g", "e", "m", "m", "a", "-", "3", "-", "2", "7", "0", "m">> >>,
        size |-> 540] >>

\* size_score.py:173-203, in insertion order, sizes in thousandths
architecture_sizes ==
    << [keywords |-> << <<"b", "e", "r", "t", "-", "l", "a", "r", "g", "e">> >>,
        size |-> 1300],
       [keywords |-> << <<"b", "e", "r", "t", "-", "b", "a", "s", "e">> >>,
        size |-> 440],
       [keywords |-> << <<"d", "i", "s", "t", "i", "l", "b", "e", "r", "t">> >>,
        size |-> 260],
       [keywords |-> << <<"w", "h", "i", "s", "p", "e", "r", "-", "t", "i", "n", "y">> >>,
        size |-> 75],
       [keywords |-> << <<"w", "h", "i", "s", "p", "e", "r", "-", "s", "m", "a", "l", "l">> >>,
        size |-> 240],
       [keywords |-> << <<"w", "h", "i", "s", "p", "e", "r", "-", "b", "a", "s", "e">> >>,
        size |-> 290],
       [keywords |-> << <<"w", "h", "i", "s", "p", "e", "r", "-", "m", "e", "d", "i", "u", "m">> >>,
        size |-> 1530],
       [keywords |-> << <<"w", "h", "i", "s", "p", "e", "r", "-", "l", "a", "r", "g", "e">> >>,
        size |-> 3090],
       [keywords |-> << <<"t", "5", "-", "s", "m", "a", "l", "l">> >>,
        size |-> 240],
       [keywords |-> << <<"t", "5", "-", "b", "a", "s", "e">> >>,
        size |-> 890],
       [keywords |-> << <<"t", "5", "-", "l", "a", "r", "g", "e">> >>,
        size |-> 3000],
       [keywords |-> << <<"g", "p", "t", "2">> >>,
        size |-> 500],
       [keywords |-> << <<"g", "p", "t", "2", "-", "m", "e", "d", "i", "u", "m">> >>,
        size |-> 1400],
       [keywords |-> << <<"g", "p", "t", "2", "-", "l", "a", "r", "g", "e">> >>,
        size |-> 3200],
       [keywords |-> << <<"m", "i", "n", "i">>, <<"t", "i", "n", "y">>, <<"n", "a", "n", "o">> >>,
        size |-> 100],
       [keywords |-> << <<"s", "m", "a", "l", "l">> >>,
        size |-> 300],
       [keywords |-> << <<"b", "a", "s", "e">>, <<"m", "e", "d", "i", "u", "m">> >>,
        size |-> 800],
       [keywords |-> << <<"l", "a", "r", "g", "e">>, <<"b", "i", "g">> >>,
        size |-> 2500],
       [keywords |-> << <<"x", "l">>, <<"e", "x", "t", "r", "a", "-", "l", "a", "r", "g", "e">> >>,
        size |-> 4000],
       [keywords |-> << <<"x", "x", "l">>, <<"u", "l", "t", "r", "a">>, <<"g", "i", "a", "n", "t">> >>,
        size |-> 12000] >>

\* The size of the first entry of an ordered table with a keyword in name,
\* or None
RECURSIVE FirstEntry(_, _, _)
FirstEntry(table, k, name) ==
    IF k > Len(table) THEN None
    ELSE IF any_in(table[k].keywords, name) THEN Float(table[k].size)
    ELSE FirstEntry(table, k + 1, name)

\* The starts of the matches of (\d+(?:\.\d+)?)<tail>
NumberThen(s, tail(_, _)) ==
    {i \in 1..Len(s) : IsDigit(s[i]) /\ tail(s, NumberEnd(s, i) + 1)}

\* -?<word> at position i
DashWordAt(s, i, word) ==
    LitAt(s, i, word) \/ (At(s, i) = "-" /\ LitAt(s, i + 1, word))

\* re.search of the patterns of a list in turn: the float of group(1) of the
\* first pattern that matches, or None
SearchNumber(s, first, second) ==
    IF first # {} THEN Float(FloatValue(s, FirstOf(first)))
    ELSE IF second # {} THEN Float(FloatValue(s, FirstOf(second)))
    ELSE None

\* size_score.py:136-146
b_patterns(s) ==
    SearchNumber(s,
        NumberThen(s, LAMBDA t, i : At(t, i) = "b" /\ DelimiterAt(t, i + 1)),
        NumberThen(s, LAMBDA t, i : DashWordAt(t, i, WordBillion)))

\* size_score.py:149-159
m_patterns(s) ==
    SearchNumber(s,
        NumberThen(s, LAMBDA t, i : At(t, i) = "m" /\ DelimiterAt(t, i + 1)),
        NumberThen(s, LAMBDA t, i : DashWordAt(t, i, WordMillion)))

\* size_score.py:162-170
gb_patterns(s) ==
    SearchNumber(s,
        NumberThen(s, LAMBDA t, i : LitAt(t, i, <<"g", "b">>)),
        NumberThen(s, LAMBDA t, i : At(t, i) = "g" /\ DelimiterAt(t, i + 1)))

\* str.replace of one character by another
replace_char(s, old, new) == [i \in 1..Len(s) |-> IF s[i] = old THEN new ELSE s[i]]

\* size_score.py:110-210: the size from the model name, in thousandths
size_from_name(name) ==
    LET model_name == lower(name)
        model_name_clean == replace_char(replace_char(model_name, "_", "-"), " ", "-")
        mapped == FirstEntry(model_size_mappings, 1, model_name_clean)
        family == FirstEntry(architecture_sizes, 1, model_name)
    IN IF model_name = <<>> THEN 500
       ELSE IF mapped # None THEN mapped.value
       ELSE IF b_patterns(model_name) # None
       THEN b_patterns(model_name).value * 2
       ELSE IF m_patterns(model_name) # None
       THEN (m_patterns(model_name).value * 2) \div 1000
       ELSE IF gb_patterns(model_name) # None
       THEN gb_patterns(model_name).value
       ELSE IF family # None THEN family.value
       ELSE 500

\* s.endswith((suffixes))
endswith_any(s, suffixes) == \E x \in suffixes : endswith(s, x)

WeightSuffixes == { <<".", "b", "i", "n">>, <<".", "s", "a", "f", "e", "t", "e", "n", "s", "o", "r", "s">> }

ConfigSuffixes ==
    { <<".", "j", "s", "o", "n">>, <<".", "t", "x", "t">>, <<".", "m", "d">>, <<".", "p", "y">>,
      <<".", "g", "i", "t", "i", "g", "n", "o", "r", "e">> }

\* size_score.py:91-105: what one file adds to total_size_gb, in millionths
\* of a gigabyte, file_info mapping some paths to their size
file_size(hf_info, file_path) ==
    IF endswith_any(file_path, WeightSuffixes)
    THEN IF file_path \in DOMAIN hf_info.file_info
         THEN 1000 * hf_info.file_info[file_path] ELSE 250000
    ELSE IF endswith(file_path, <<".", "h", "5">>) THEN 800000
    ELSE IF endswith_any(file_path, ConfigSuffixes) THEN 1000
    ELSE 0

\* size_score.py:92-103: the file counts as a model file
IsModelFile(file_path) ==
    endswith_any(file_path, WeightSuffixes) \/ endswith(file_path, <<".", "h", "5">>)

RECURSIVE total_size(_, _)
total_size(hf_info, k) ==
    IF k = 0 THEN 0
    ELSE total_size(hf_info, k - 1) + file_size(hf_info, hf_info.files[k])

\* size_score.py:87-108: the size from the file listing in thousandths, or
\* None without a model file
size_from_files(hf_info) ==
    IF hf_info = None \/ hf_info.files = <<>> THEN None
    ELSE IF \E k \in 1..Len(hf_info.files) : IsModelFile(hf_info.files[k])
    THEN LET total == total_size(hf_info, Len(hf_info.files)) \div 1000
         IN Float(IF total >= 10 THEN total ELSE 10)
    ELSE None

\* size_score.py:67-210; the context's README is not read
estimate_model_size(ctx) ==
    LET size_from_text == extract_model_size_from_text(ctx.name)
    IN IF size_from_text # None /\ size_from_text.value > 0
       THEN size_from_text.value
       ELSE IF size_from_files(ctx.hf_info) # None
       THEN size_from_files(ctx.hf_info).value
       ELSE size_from_name(ctx.name)

\* ---------------------------------------------------------------------
\* SizeScoreMetric._calculate_size_scores (size_score.py:28-48) on sampled
\* contexts, with the limits of the default configuration
\* ---------------------------------------------------------------------

\* context.model_url.name
SizeNames ==
    { <<"b", "e", "r", "t", "-", "b", "a", "s", "e", "-", "u", "n", "c", "a", "s", "e", "d">>,
      <<"l", "l", "a", "m", "a", "-", "7", "b">>,
      <<"x", "-", "7", "b", "_", "v">>,
      <<"g", "e", "m", "m", "a", "-", "3", "-", "2", "7", "0", "m">>,
      <<"m", "o", "d", "e", "l", "-", "l", "a", "r", "g", "e">>,
      <<"m", "y", "m", "o", "d", "e", "l">>,
      <<"1", "g", "b">>,
      <<"m", "o", "d", "e", "l", "-", "2", "g", "b">>,
      <<"4", "g", "b">>,
      <<"5", "b">> }

FileWeights == <<"m", "o", "d", "e", "l", ".", "s", "a", "f", "e", "t", "e", "n", "s", "o", "r", "s">>

FileBin == <<"p", "y", "t", "o", "r", "c", "h", "_", "m", "o", "d", "e", "l", ".", "b", "i", "n">>

FileH5 == <<"t", "f", "_", "m", "o", "d", "e", "l", ".", "h", "5">>

\* hf_info with a file listing and the sizes known for some of its files
SizeInfoOf(files, file_info) == [files |-> files, file_info |-> file_info]

NoFileInfo == [f \in {} |-> 0]

\* context.hf_info: absent, no model file, a weight file of unknown size, a
\* weight file of 1.5 GB with a configuration file, an .h5 file
SizeHfInfos ==
    { None,
      SizeInfoOf(<<FileConfig>>, NoFileInfo),
      SizeInfoOf(<<FileBin>>, NoFileInfo),
      SizeInfoOf(<<FileWeights, FileConfig>>, [f \in {FileWeights} |-> 1500]),
      SizeInfoOf(<<FileH5>>, NoFileInfo) }

\* "This is a 7B parameter model"
ReadmeWithSize ==
    << "T", "h", "i", "s", " ", "i", "s", " ", "a", " ", "7", "B", " ",
       "p", "a", "r", "a", "m", "e", "t", "e", "r", " ", "m", "o", "d",
       "e", "l" >>

\* context.readme_content: absent, without a size, with an explicit size
SizeReadmes == {None, Str(LineTitle), Str(ReadmeWithSize)}

SizeContexts ==
    { [name |-> n, hf_info |-> h, readme_content |-> r] :
        n \in SizeNames, h \in SizeHfInfos, r \in SizeReadmes }

\* size_score.py:38-41 with the default configuration (scoring.py:71)
raspberry_pi_limit == 2000

jetson_nano_limit == 8000

desktop_pc_limit == 32000

aws_server_limit == 128000

SizeInit ==
    /\ ev_pc = "start"
    /\ ev_context \in SizeContexts
    /\ ev_metric = "size_score"
    /\ ev_outcome = None
    /\ ev_input = None

\* size_score.py:32
EstimateModelSize ==
    /\ ev_pc = "start"
    /\ ev_pc' = "estimated"
    /\ ev_outcome' = [kind |-> "estimate",
                      size |-> estimate_model_size(ev_context)]
    /\ UNCHANGED <<ev_context, ev_metric, ev_input>>
    /\ UNCHANGED not_ev_vars

\* size_score.py:34-48
CalculateSizeScores ==
    /\ ev_pc = "estimated"
    /\ ev_pc' = "done"
    /\ ev_outcome' =
          [kind |-> "return",
           size |-> ev_outcome.size,
           value |->
              [raspberry_pi |->
                  calculate_device_score(ev_outcome.size, raspberry_pi_limit),
               jetson_nano |->
                  calculate_device_score(ev_outcome.size, jetson_nano_limit),
               desktop_pc |->
                  calculate_device_score(ev_outcome.size, desktop_pc_limit),
               aws_server |->
                  calculate_device_score(ev_outcome.size, aws_server_limit)]]
    /\ UNCHANGED <<ev_context, ev_metric, ev_input>>
    /\ UNCHANGED not_ev_vars

SizeNext == EstimateModelSize \/ CalculateSizeScores

SizeStart ==
    ScorerInit /\ CliIdle /\ UrlIdle /\ GitIdle /\ HfIdle /\ SizeInit /\ InsIdle

SizeSpec == SizeStart /\ [][SizeNext]_vars

\* ---------------------------------------------------------------------
\* Claims about the size evaluator
\* ---------------------------------------------------------------------

\* The limit of each device class
DeviceLimits ==
    [raspberry_pi |-> raspberry_pi_limit, jetson_nano |-> jetson_nano_limit,
     desktop_pc |-> desktop_pc_limit, aws_server |-> aws_server_limit]

\* The device score is known to be exactly v
ScoreIs(score, v) == score.lo = v /\ score.hi = v

\* The size scores have been computed
SizeScored == ev_pc = "done" /\ ev_metric = "size_score" /\ ev_outcome.kind = "return"

\* C21: the per-device size score is 1.0 whenever the estimated size is at
\* or below the device limit, a partial credit strictly between 0 and 1 for
\* moderate overshoot, and 0.0 from five times the limit on; against the
\* 2 GB limit, sizes 1.0, 2.0, 4.0 and 10.0 score 1.0, 0.8, 0.5 and 0.0.
C21_DeviceScoreBands ==
    SizeScored =>
        /\ \A dev \in DOMAIN DeviceLimits :
              LET score == ev_outcome.value[dev]
                  size == ev_outcome.size
                  limit == DeviceLimits[dev]
              IN /\ size <= limit => ScoreIs(score, 1000)
                 /\ (limit < size /\ size < 5 * limit) =>
                       (0 < score.lo /\ score.hi < 1000)
                 /\ size >= 5 * limit => ScoreIs(score, 0)
        /\ ev_outcome.size = 1000 => ScoreIs(ev_outcome.value.raspberry_pi, 1000)
        /\ ev_outcome.size = 2000 => ScoreIs(ev_outcome.value.raspberry_pi, 800)
        /\ ev_outcome.size = 4000 => ScoreIs(ev_outcome.value.raspberry_pi, 500)
        /\ ev_outcome.size = 10000 => ScoreIs(ev_outcome.value.raspberry_pi, 0)

\* The size an explicit mention in the README text gives, or None
ReadmeSize(ctx) ==
    IF ctx.readme_content = None THEN None
    ELSE extract_model_size_from_text(ctx.readme_content.chars)

\* C27: the size estimate follows the priority order: an explicit size
\* mention in the README text decides the estimate when present; only
\* otherwise the weight files of the file listing are summed; only otherwise
\* the naming-convention heuristics on the model name are used, the default
\* for an unknown name last.
C27_EstimatePriority ==
    (ev_metric = "size_score" /\ ev_pc = "estimated") =>
        ev_outcome.size =
            IF ReadmeSize(ev_context) # None THEN ReadmeSize(ev_context).value
            ELSE IF size_from_files(ev_context.hf_info) # None
            THEN size_from_files(ev_context.hf_info).value
            ELSE size_from_name(ev_context.name)

\* ---------------------------------------------------------------------
\* More properties of build_model_contexts (UrlSpec)
\* ---------------------------------------------------------------------

\* The platforms parse_url knows
KnownNetlocs == {"huggingface.co", "github.com"}

\* C22: parse_url classifies a URL on an unknown platform (neither
\* huggingface.co nor github.com) as category MODEL with platform "unknown",
\* so that such a URL produces a model context in build_model_contexts.
C22_UnknownPlatformIsModel ==
    bmc_pc \in {"loop", "returned"} =>
        \A i \in 1..Len(url_list) :
            url_list[i].netloc \notin KnownNetlocs =>
                /\ parsed_urls[i].category = "MODEL"
                /\ parsed_urls[i].platform = "unknown"
                /\ bmc_pc = "returned" =>
                      \E k \in 1..Len(contexts) :
                          contexts[k].model_url = parsed_urls[i]

\* The references of a category parsed before place k of the input, in
\* input order
Preceding(category, k) ==
    SelectSeq(SubSeq(parsed_urls, 1, k - 1), LAMBDA r : r.category = category)

\* The reference shares a name token or the owner with the model
SharesTokenOrOwner(model_url, r) ==
    \/ \E w \in extract_name_parts(model_url.name) : w \in extract_name_parts(r.name)
    \/ r.owner = model_url.owner

\* The last min(2, n) of n references
MostRecentTwo(refs) ==
    SubSeq(refs, IF Len(refs) > 2 THEN Len(refs) - 1 ELSE 1, Len(refs))

\* What a model at place k links of the references before it
LinkedOf(model_url, refs) ==
    LET matching == SelectSeq(refs, LAMBDA r : SharesTokenOrOwner(model_url, r))
    IN IF matching # <<>> THEN matching ELSE MostRecentTwo(refs)

\* C30: in build_model_contexts pending datasets and code references are
\* never cleared, so a reference stays a linking candidate for every later
\* model; and whenever at least one reference of a kind precedes a model,
\* that model's linked list of that kind is non-empty: it holds all
\* preceding references sharing a name token or owner with the model, or,
\* when none match, exactly the min(2, n) most recent preceding ones.
C30_PendingKeptAndLinked ==
    bmc_pc \in {"loop", "returned"} =>
        /\ pending_datasets = Preceding("DATASET", bmc_i)
        /\ pending_code = Preceding("CODE", bmc_i)
        /\ \A k \in 1..Len(contexts) :
              LET model_url == contexts[k].model_url
                  datasets == Preceding("DATASET", ModelPlaces[k])
                  code == Preceding("CODE", ModelPlaces[k])
              IN /\ datasets # <<>> =>
                       /\ contexts[k].datasets # <<>>
                       /\ contexts[k].datasets = LinkedOf(model_url, datasets)
                 /\ code # <<>> =>
                       /\ contexts[k].code_repos # <<>>
                       /\ contexts[k].code_repos = LinkedOf(model_url, code)

\* build_model_contexts has returned for an input of three datasets that
\* share nothing with the model that follows them, which links the last two,
\* and the three datasets are still pending
C30_Witness ==
    /\ bmc_pc = "returned"
    /\ url_list = <<UnknownCsv, HfDatasetSquad, UnknownCsv, HfModelBert>>
    /\ Len(pending_datasets) = 3
    /\ contexts[1].datasets = <<parse_url(HfDatasetSquad), parse_url(UnknownCsv)>>

\* ---------------------------------------------------------------------
\* More properties of GitInspector.clone_repo (GitSpec)
\* ---------------------------------------------------------------------

\* The (owner, repo) pair of a repository
OwnerRepo(repo_url) == <<repo_url.owner, repo_url.repo>>

\* C23: clone_repo maps distinct (owner, repo) pairs to distinct
\* clone-destination paths within one cache directory, so a cache hit for
\* one repository never returns the clone of a different repository: the
\* calls made for two different pairs use different paths, and the directory
\* a cache hit returns was written only by clones of the same pair.
C23_DistinctClonePaths ==
    \A i \in 1..Len(clone_log) :
        /\ \A j \in 1..Len(clone_log) :
              OwnerRepo(code_repos[i]) # OwnerRepo(code_repos[j]) =>
                  clone_log[i].repo_name # clone_log[j].repo_name
        /\ clone_log[i].how = "cache hit" =>
              \A t \in 1..(i - 1) :
                  ( /\ threads[t] # "not started"
                    /\ repo_name(code_repos[t]) = clone_log[i].repo_name ) =>
                        OwnerRepo(code_repos[t]) = OwnerRepo(code_repos[i])

\* ---------------------------------------------------------------------
\* The two evaluators that clone (bus_factor.py:43-65, code_quality.py:33-54)
\* on one machine, each with its own GitInspector (git_inspect.py:26-29,
\* 343-349).  _compute_metrics_parallel awaits the evaluators of one model in
\* turn (scoring.py:150-152); runs of the program on one machine can overlap,
\* so the steps of the two evaluators are interleaved freely.
\* ---------------------------------------------------------------------

Cloners == {"bus_factor", "code_quality"}

\* The names tempfile.mkdtemp can give a directory
MaxTempDirs == 2

TempNames == 1..MaxTempDirs

\* A directory: whether it exists and whether it holds a clone
Dir(exists, cloned) == [exists |-> exists, cloned |-> cloned]

Phase(e, phase) == ins_pc[e] = phase

\* code_quality.py:43 tries context.code_repos[:2], bus_factor.py:46 all
ReposTriedBy(e, n) == IF e = "code_quality" THEN Min(n, 2) ELSE n

InsInit ==
    /\ ins_pc = [e \in Cloners |-> "start"]
    /\ \E n \in 0..MaxRepos : ins_left = [e \in Cloners |-> ReposTriedBy(e, n)]
    /\ ins_dir = [e \in Cloners |-> 0]
    /\ ins_failed = [e \in Cloners |-> FALSE]
    /\ tmp_dirs = [n \in TempNames |-> Dir(FALSE, FALSE)]

\* git_inspect.py:27 with cache_dir None: tempfile.mkdtemp creates a
\* directory that did not exist, under a name no existing directory has
mkdtemp_reusing(dirs) == {n \in TempNames : n = 1}

mkdtemp(dirs) == {n \in TempNames : ~dirs[n].exists}

\* bus_factor.py:43, code_quality.py:33-34: no linked repository, no
\* GitInspector
NoLinkedRepos(e) ==
    /\ Phase(e, "start")
    /\ ins_left[e] = 0
    /\ ins_pc' = [ins_pc EXCEPT ![e] = "done"]
    /\ UNCHANGED <<ins_left, ins_dir, ins_failed, tmp_dirs>>
    /\ UNCHANGED not_ins_vars

\* bus_factor.py:44, code_quality.py:39, git_inspect.py:26-29
NewInspector(e) ==
    /\ Phase(e, "start")
    /\ ins_left[e] > 0
    /\ \E n \in mkdtemp(tmp_dirs) :
          /\ ins_dir' = [ins_dir EXCEPT ![e] = n]
          /\ tmp_dirs' = [tmp_dirs EXCEPT ![n] = Dir(TRUE, tmp_dirs[n].cloned)]
    /\ ins_pc' = [ins_pc EXCEPT ![e] = "loop"]
    /\ UNCHANGED <<ins_left, ins_failed>>
    /\ UNCHANGED not_ins_vars

\* git_inspect.py:31-87: clone_repo returns a path, after a clone or a cache
\* hit; the cache directory must still exist for the clone to be written
ClonePath(e) ==
    /\ Phase(e, "loop")
    /\ ins_left[e] > 0
    /\ tmp_dirs[ins_dir[e]].exists
    /\ tmp_dirs' = [tmp_dirs EXCEPT ![ins_dir[e]] = Dir(TRUE, TRUE)]
    /\ ins_pc' = [ins_pc EXCEPT ![e] = "analyze"]
    /\ UNCHANGED <<ins_left, ins_dir, ins_failed>>
    /\ UNCHANGED not_ins_vars

\* git_inspect.py:37-38, 77-94: clone_repo returns None
CloneNone(e) ==
    /\ Phase(e, "loop")
    /\ ins_left[e] > 0
    /\ ins_left' = [ins_left EXCEPT ![e] = @ - 1]
    /\ ins_failed' = [ins_failed EXCEPT ![e] = TRUE]
    /\ UNCHANGED <<ins_pc, ins_dir, tmp_dirs>>
    /\ UNCHANGED not_ins_vars

\* bus_factor.py:49-63, code_quality.py:47-52: the clone is analysed and
\* the loop left
AnalyzeClone(e) ==
    /\ Phase(e, "analyze")
    /\ ins_pc' = [ins_pc EXCEPT ![e] = "finally"]
    /\ UNCHANGED <<ins_left, ins_dir, ins_failed, tmp_dirs>>
    /\ UNCHANGED not_ins_vars

\* bus_factor.py:46, code_quality.py:43: no repository is left to try
NoRepoLeft(e) ==
    /\ Phase(e, "loop")
    /\ ins_left[e] = 0
    /\ ins_pc' = [ins_pc EXCEPT ![e] = "finally"]
    /\ UNCHANGED <<ins_left, ins_dir, ins_failed, tmp_dirs>>
    /\ UNCHANGED not_ins_vars

\* bus_factor.py:64-65, code_quality.py:53-54, git_inspect.py:343-349:
\* rmtree of the evaluator's cache_dir; it can leave the tree only when a
\* clone_worker of a failed clone may still be writing in it
CleanupCache(e, o) ==
    /\ Phase(e, "finally")
    /\ o = "left" => ins_failed[e]
    /\ tmp_dirs' = IF o = "removed"
                   THEN [tmp_dirs EXCEPT ![ins_dir[e]] = Dir(FALSE, FALSE)]
                   ELSE tmp_dirs
    /\ ins_pc' = [ins_pc EXCEPT ![e] = "done"]
    /\ UNCHANGED <<ins_left, ins_dir, ins_failed>>
    /\ UNCHANGED not_ins_vars

InsNext ==
    \E e \in Cloners :
        \/ NoLinkedRepos(e)
        \/ NewInspector(e)
        \/ ClonePath(e)
        \/ CloneNone(e)
        \/ AnalyzeClone(e)
        \/ NoRepoLeft(e)
        \/ \E o \in RmtreeOutcomes : CleanupCache(e, o)

InsStart ==
    ScorerInit /\ CliIdle /\ UrlIdle /\ GitIdle /\ HfIdle /\ EvalIdle /\ InsInit

InsSpec == InsStart /\ [][InsNext]_vars

\* The evaluator holds a GitInspector whose cleanup has not run
HoldsInspector(e) == ins_pc[e] \in {"loop", "analyze", "finally"}

\* C24: each evaluator that clones a repository (bus factor, code quality)
\* uses its own GitInspector with its own freshly created cache directory,
\* so one evaluator's cleanup never removes a clone that another evaluator
\* is using or will use: two evaluators never hold the same cache directory,
\* and the clone an evaluator is about to analyse is on disk.
C24_OwnCacheDirectory ==
    \A e \in Cloners :
        /\ HoldsInspector(e) =>
              \A other \in Cloners \ {e} :
                  HoldsInspector(other) => ins_dir[other] # ins_dir[e]
        /\ Phase(e, "analyze") =>
              /\ tmp_dirs[ins_dir[e]].exists
              /\ tmp_dirs[ins_dir[e]].cloned

\* One evaluator has cleaned up its cache directory while the other is about
\* to analyse the clone in its own
C24_Witness ==
    /\ Phase("bus_factor", "done")
    /\ ins_dir["bus_factor"] # 0
    /\ ~tmp_dirs[ins_dir["bus_factor"]].exists
    /\ Phase("code_quality", "analyze")
    /\ tmp_dirs[ins_dir["code_quality"]].cloned

\* ---------------------------------------------------------------------
\* The bus-factor score (src/src/metrics/bus_factor.py)
\* ---------------------------------------------------------------------

\* min(1.0, n / 5.0), in thousandths
AuthorsOverFive(n) == Min(1000, (n * 1000) \div 5)

BusFactorScored ==
    /\ ev_pc = "done"
    /\ ev_metric = "bus_factor"
    /\ ev_input.kind = "authors"

\* C25: when a linked code repository is clonable and its git summary
\* reports n unique commit authors, the bus-factor score equals
\* min(1.0, n / 5.0).
C25_AuthorsOverFive ==
    BusFactorScored =>
        /\ ev_outcome.kind = "return"
        /\ ReturnedScore = AuthorsOverFive(ev_input.unique_authors)

\* What the code computes: the step score of the author count (0.8 from
\* min_contributors up, 0.6 for two, single_contributor_penalty for one,
\* 0.1 for none), weighted 0.4 beside 0.6 of the engagement score when
\* there is Hub metadata, and alone when there is none
BusFactorAsCoded ==
    BusFactorScored =>
        /\ ev_outcome.kind = "return"
        /\ ReturnedScore =
              IF ev_context.hf_info = None
              THEN git_score_for(ev_input.unique_authors)
              ELSE (analyze_hf_engagement(ev_context.hf_info) * 6) \div 10
                   + (git_score_for(ev_input.unique_authors) * 4) \div 10

\* ---------------------------------------------------------------------
\* The performance-claims score (src/src/metrics/performance_claims.py)
\* ---------------------------------------------------------------------

\* The README of the context holds one of the patterns, in any case
Mentions(ctx, patterns) ==
    /\ TruthyReadme(ctx.readme_content)
    /\ any_in(patterns, lower(readme_text(ctx.readme_content)))

PerformanceScored == ev_pc = "done" /\ ev_metric = "performance_claims"

\* C26: a README with an explicit negative statement scores 0.05 whatever
\* else it holds; otherwise a README with both a reproducibility marker and a
\* benchmark mention scores 1.0, one with a benchmark mention alone scores
\* 0.5, and a context with nothing (no README, or no matching keyword)
\* scores 0.1.
C26_PerformanceScore ==
    PerformanceScored =>
        /\ ev_outcome.kind = "return"
        /\ ReturnedScore =
              IF Mentions(ev_context, negative_indicators) THEN 50
              ELSE IF /\ Mentions(ev_context, reproducible_indicators)
                      /\ Mentions(ev_context, benchmark_patterns)
              THEN 1000
              ELSE IF Mentions(ev_context, benchmark_patterns) THEN 500
              ELSE 100

\* What the code computes: nothing for a context without README, and a
\* paper reference beside a benchmark mention decides before the
\* reproducibility marker is looked at
PerformanceAsCoded ==
    PerformanceScored =>
        /\ ev_outcome.kind = "return"
        /\ ReturnedScore =
              IF ~TruthyReadme(ev_context.readme_content) THEN 0
              ELSE IF Mentions(ev_context, negative_indicators) THEN 50
              ELSE IF /\ Mentions(ev_context, benchmark_patterns)
                      /\ Mentions(ev_context, paper_indicators)
              THEN IF Mentions(ev_context, detailed_indicators) THEN 850 ELSE 750
              ELSE IF /\ Mentions(ev_context, reproducible_indicators)
                      /\ Mentions(ev_context, benchmark_patterns)
              THEN 1000
              ELSE IF Mentions(ev_context, benchmark_patterns) THEN 500
              ELSE 100

\* ---------------------------------------------------------------------
\* The code-quality score (src/src/metrics/code_quality.py)
\* ---------------------------------------------------------------------

CodeQualityScored ==
    /\ ev_pc = "done"
    /\ ev_metric = "code_quality"
    /\ ev_input.kind = "clones"

\* The repositories among the first two linked ones that could be cloned
ClonableOfFirstTwo ==
    { i \in 1..Min(2, Len(ev_context.code_repos)) : ev_input.clones[i] # None }

\* min(1.0, clamp(1 - error_count/50, 0, 1) + 0.1 for a tests directory
\* + 0.1 for a CI configuration), in thousandths
LintScore(error_count, has_tests, has_ci) ==
    LET clamped == IF error_count >= 50 THEN 0 ELSE 1000 - 20 * error_count
        bumped == clamped + (IF has_tests THEN 100 ELSE 0)
                          + (IF has_ci THEN 100 ELSE 0)
    IN IF bumped > 1000 THEN 1000 ELSE bumped

\* C28: the code-quality score is 0.4 when no code repository is linked or
\* none of the first two linked repositories can be cloned; otherwise the
\* first clonable one among the first two is analysed and the score is
\* min(1.0, clamp(1 - error_count/50, 0, 1) + 0.1 if a tests directory
\* exists + 0.1 if a CI configuration exists).
C28_CodeQualityScore ==
    CodeQualityScored =>
        /\ ev_outcome.kind = "return"
        /\ IF ClonableOfFirstTwo = {} THEN ReturnedScore = 400
           ELSE \E i \in ClonableOfFirstTwo :
                   /\ \A j \in ClonableOfFirstTwo : i <= j
                   /\ ReturnedScore =
                         LintScore(total_errors(ev_input.clones[i]),
                                   ev_input.clones[i].has_tests,
                                   ev_input.clones[i].has_ci)

\* Three repositories are linked, the first cannot be cloned, and the score
\* is that of the second: 25 lint errors and a tests directory
C28_Witness ==
    /\ CodeQualityScored
    /\ Len(ev_context.code_repos) = 3
    /\ ev_input.clones[1] = None
    /\ ev_input.clones[2] = TreeLinted
    /\ ev_outcome.kind = "return"
    /\ ReturnedScore = 600

\* ---------------------------------------------------------------------
\* The keys of the map _compute_metrics_parallel returns (src/src/scoring.py)
\* ---------------------------------------------------------------------

\* The 8 metric names and size_score_latency
ResultKeys ==
    { "ramp_up_time", "bus_factor", "performance_claims", "license",
      "size_score", "dataset_and_code_score", "dataset_quality",
      "code_quality", "size_score_latency" }

\* C29: for every combination of evaluator successes and failures, the map
\* _compute_metrics_parallel returns holds exactly the 8 metric names and
\* size_score_latency (each task awaited has left its entries, the size task
\* its latency too), so the record assembly of score_model never meets a
\* missing key.
C29_ResultKeys ==
    /\ DOMAIN results \subseteq ResultKeys
    /\ \A m \in MetricNames :
          coro[m] = "finished" =>
              /\ m \in DOMAIN results
              /\ m = "size_score" => "size_score_latency" \in DOMAIN results
    /\ AllFinished => DOMAIN results = ResultKeys

\* The record has been assembled from a map where the size evaluator and two
\* others raised and the remaining ones returned
C29_Witness ==
    /\ pc = "returned"
    /\ DOMAIN results = ResultKeys
    /\ \A m \in {"size_score", "bus_factor", "code_quality"} :
          outcome[m].kind = "raise"
    /\ \A m \in MetricNames \ {"size_score", "bus_factor", "code_quality"} :
          outcome[m].kind = "return"

====
